---- MODULE Spec2Model ----
(***************************************************************************)
(* HeatControlAPI: the heating decision (get_heating_status), the target   *)
(* resolution it embeds, the temperature ingestion, the latest-sample and  *)
(* range queries, the creation and deletion of rooms and the weather       *)
(* background task of API/main.py, over the SQL tables (rooms,             *)
(* room_settings) and the InfluxDB bucket; the import of the test data     *)
(* (API/test_import.py), wait_for_mysql (API/sql.py), and of the           *)
(* dashboard its session and the target it shows for a room.               *)
(*                                                                         *)
(* Units.  An instant is a pair: the whole seconds since                   *)
(* 1970-01-01T00:00:00Z (time, t) and the microsecond of that second (us). *)
(* Temperatures are whole numbers of ninetieths of a degree Celsius,       *)
(* written by their tenths (21.0 -> Tenths(210)), so that the float        *)
(* comparisons of the code are integer comparisons here and the Celsius    *)
(* value of a whole degree Fahrenheit is a whole number too.               *)
(* A naive datetime is modelled by the number of seconds its wall-clock    *)
(* reading is from 1970-01-01T00:00:00, with its microsecond; the Influx   *)
(* client stamps a naive datetime as if it were UTC, so that pair is also  *)
(* the stored _time.                                                       *)
(***************************************************************************)
EXTENDS Integers, Sequences, FiniteSets, TLC

VARIABLES
    rooms,          \* SQL table rooms: set of rows [id, user_id, name]
    room_settings,  \* SQL table room_settings: set of rows
    next_room_id,   \* AUTO_INCREMENT counter of rooms.id
    influx,         \* the bucket: sequence of points in write order
    clock,          \* the current instant (UTC seconds)
    clock_us,       \* the microsecond of the current instant
    server_tz,      \* the zone datetime.now() of the API process reads in
    resp,           \* the request handled in the last step and its answer
    weather,        \* the weather background task: where it stands, and
                    \* what its last cycle loaded and met
    session,        \* the dashboard's SessionManager object
    query_params,   \* the dashboard's st.query_params: the token in the URL
    startup,        \* wait_for_mysql of sql.py: its arguments, where it
                    \* stands and the connection attempts it has made
    write_queue,    \* the points handed to write_api (main.py 69) whose
                    \* write to the bucket is still to come
    imports,        \* the calls of import_csv_if_needed in progress, one
                    \* for each thread of the pool that runs one
    locations,      \* SQL table users: the zone each user's coordinates
                    \* (latitude, longitude) lie in
    room_detail,    \* the run of the dashboard's page_room_detail: the
                    \* settings it has fetched and the target it shows
    creating        \* the call of create_room that is between two of its
                    \* SQL statements

vars == <<rooms, room_settings, next_room_id, influx, clock, clock_us, server_tz, resp,
          weather, session, query_params, startup, write_queue, imports, locations,
          room_detail, creating>>

-----------------------------------------------------------------------------
(* Bounds of the model *)

MaxPoints == 2     \* points ever written to the bucket
MaxSleeps == 2     \* sleeps of the weather task that are followed

(* Program constants *)

MaxBatch == 100        \* main.py:446  len(batch.temperatures) > 100
LookbackDays == 7      \* main.py:754  range(start: -7d)
SecondsPerHour == 3600 \* main.py:736  seconds // 3600
SecondsPerMinute == 60 \* main.py:737  (seconds % 3600) // 60, seconds % 60

SecondsPerDay == 24 * SecondsPerHour
MicrosPerSecond == 1000000 \* main.py:425  datetime.now() reads to the microsecond

Users == {1, 2}
RoomNames == {"Kitchen"}
RoomIds == {1, 2}
\* n tenths of a degree Celsius.
Tenths(n) == 9 * n

Temps == {Tenths(180), Tenths(210)}
Zones == {"UTC", "Europe/Berlin", "America/New_York"}

-----------------------------------------------------------------------------
(* Wall-clock time *)

\* Offset of a zone's wall clock from UTC (standard time).
UtcOffset(tz) ==
    CASE tz = "UTC" -> 0
      [] tz = "Europe/Berlin" -> SecondsPerHour
      [] tz = "America/New_York" -> -5 * SecondsPerHour

\* datetime.now(): the naive wall-clock reading of the server at instant t
\* (its seconds; the microsecond of the reading is that of the instant).
NowAt(t) == t + UtcOffset(server_tz)

\* Whether the instant (time1, us1) is before the instant (time2, us2).
earlier(time1, us1, time2, us2) ==
    time1 < time2 \/ (time1 = time2 /\ us1 < us2)

\* The instant n microseconds after (time, us).
plus_us(time, us, n) ==
    [time |-> time + (us + n) \div MicrosPerSecond, us |-> (us + n) % MicrosPerSecond]

\* datetime.time(h, m, s) as the triple <<h, m, s>>.
TimeOfDay(secs) ==
    <<secs \div SecondsPerHour,
      (secs % SecondsPerHour) \div SecondsPerMinute,
      secs % SecondsPerMinute>>

\* datetime.now().time(): the time-of-day part of a naive datetime.
TimePart(naive) == TimeOfDay(naive % SecondsPerDay)

\* Python's ordering of datetime.time values.
TimeLess(a, b) ==
    \/ a[1] < b[1]
    \/ a[1] = b[1] /\ a[2] < b[2]
    \/ a[1] = b[1] /\ a[2] = b[2] /\ a[3] < b[3]

TimeLeq(a, b) == a = b \/ TimeLess(a, b)

-----------------------------------------------------------------------------
(* Target resolution: main.py 732-750 *)

\* A MySQL TIME column arrives as a timedelta; the handler rebuilds a time.
timedelta_to_time(seconds) ==
    <<seconds \div SecondsPerHour,
      (seconds % SecondsPerHour) \div SecondsPerMinute,
      seconds % SecondsPerMinute>>

\* is_night with the wrapping window open at night_start.
is_night_open_start(night_start, night_end, now) ==
    IF TimeLess(night_start, night_end)
    THEN TimeLeq(night_start, now) /\ TimeLess(now, night_end)
    ELSE TimeLess(night_start, now) \/ TimeLess(now, night_end)

\* is_night with the plain window closed at night_end.
is_night_closed_end(night_start, night_end, now) ==
    IF TimeLess(night_start, night_end)
    THEN TimeLeq(night_start, now) /\ TimeLeq(now, night_end)
    ELSE TimeLeq(night_start, now) \/ TimeLess(now, night_end)

\* is_night taking the plain branch for night_start = night_end.
is_night_plain_when_equal(night_start, night_end, now) ==
    IF TimeLeq(night_start, night_end)
    THEN TimeLeq(night_start, now) /\ TimeLess(now, night_end)
    ELSE TimeLeq(night_start, now) \/ TimeLess(now, night_end)

\* The night test on datetime.time values (now, night_start, night_end).
is_night(night_start, night_end, now) ==
    IF TimeLess(night_start, night_end)
    THEN TimeLeq(night_start, now) /\ TimeLess(now, night_end)
    ELSE TimeLeq(night_start, now) \/ TimeLess(now, night_end)

\* target_temp of get_heating_status for a room_settings row at naive time now.
target_temp(settings, now) ==
    IF is_night(timedelta_to_time(settings.night_start),
                timedelta_to_time(settings.night_end),
                TimePart(now))
    THEN settings.wanted_temp_night
    ELSE settings.wanted_temp_day

\* heating_on with <= for <.
heating_on_at_target(current_temp, target) == current_temp <= target

\* heating_on = current_temp < target_temp
heating_on(current_temp, target) == current_temp < target

-----------------------------------------------------------------------------
(* SQL tables *)

\* room_belongs_to without the user_id condition.
room_of_anyone(user_id, room_id) ==
    \E row \in rooms : row.id = room_id

\* SELECT id FROM rooms WHERE id = %s AND user_id = %s
room_belongs_to(user_id, room_id) ==
    \E row \in rooms : row.id = room_id /\ row.user_id = user_id

\* SELECT ... FROM room_settings WHERE user_id = %s AND room_id = %s
settings_of(user_id, room_id) ==
    {row \in room_settings : row.user_id = user_id /\ row.room_id = room_id}

\* The row create_room inserts: the defaults of main.py 313-316.
default_settings(user_id, room_id) ==
    [user_id |-> user_id, room_id |-> room_id, timezone |-> "Europe/Berlin",
     wanted_temp_day |-> Tenths(210), wanted_temp_night |-> Tenths(180),
     night_start |-> 22 * SecondsPerHour, night_end |-> 6 * SecondsPerHour]

-----------------------------------------------------------------------------
(* The bucket *)

\* Point("temperature").tag("user_id", ..).tag("room_id", ..).field("value", ..).time(..)
\* The tags are str(id); str is injective on ids, so the ids stand for them.
\* (time, us) is the instant .time(..) is given.
temperature_point(user_id, room_id, value, time, us) ==
    [measurement |-> "temperature", user_id |-> user_id, room_id |-> room_id,
     value |-> value, time |-> time, us |-> us]

\* matches without the two tag filters.
matches_any_series(p, user_id, room_id) == p.measurement = "temperature"

\* The three filter() stages of the room queries.
matches(p, user_id, room_id) ==
    /\ p.measurement = "temperature"
    /\ p.user_id = user_id
    /\ p.room_id = room_id

\* in_lookback without the start of the range.
in_lookback_unbounded(p, t, us) == earlier(p.time, p.us, t, us)

\* range(start: -7d) of a query whose now() is the instant (t, us): start
\* inclusive, stop = now() exclusive, both compared to the microsecond.
in_lookback(p, t, us) ==
    /\ ~earlier(p.time, p.us, t - LookbackDays * SecondsPerDay, us)
    /\ earlier(p.time, p.us, t, us)

\* Indices of the points the filtered range query yields at instant (t, us).
lookback_rows(user_id, room_id, t, us) ==
    {i \in DOMAIN influx :
        matches(influx[i], user_id, room_id) /\ in_lookback(influx[i], t, us)}

\* last_row by write order alone.
last_row_written(rows) ==
    IF rows = {} THEN 0
    ELSE CHOOSE i \in rows : \A j \in rows : j <= i

\* Whether row j is not after row i by _time; rows of one _time (of
\* different series) are taken in write order.
not_after(j, i) ==
    \/ earlier(influx[j].time, influx[j].us, influx[i].time, influx[i].us)
    \/ /\ influx[j].time = influx[i].time
       /\ influx[j].us = influx[i].us
       /\ j <= i

\* last(): the row of greatest _time.  0 when the range is empty.
last_row(rows) ==
    IF rows = {} THEN 0
    ELSE CHOOSE i \in rows : \A j \in rows : not_after(j, i)

\* The bucket keeps one point for a measurement, a tag set and a timestamp.
same_point(p, q) ==
    /\ p.measurement = q.measurement
    /\ p.user_id = q.user_id
    /\ p.room_id = q.room_id
    /\ p.time = q.time
    /\ p.us = q.us

\* The bucket after a write of the point has reached it: a point of the same
\* series and timestamp is replaced (its field gets the new value).
store(bucket, point) ==
    Append(SelectSeq(bucket, LAMBDA p : ~same_point(p, point)), point)

\* The bucket after the writes of the points have reached it, one by one.
RECURSIVE store_each(_, _)
store_each(bucket, points) ==
    IF points = <<>> THEN bucket
    ELSE store_each(store(bucket, Head(points)), Tail(points))

\* write_api.write(record=point) on the batching client of main.py 69
\* (WriteOptions(batch_size=1) leaves write_type at batching): the call puts
\* the point in the client's queue and returns.  fails tells whether the
\* write of the point to the bucket, which the client's thread makes
\* afterwards, is going to fail.
write(queue, point, fails) == Append(queue, [point |-> point, fails |-> fails])

\* The points of a loop from entry i on, in the order of their write calls;
\* lost holds the entries whose write is going to fail.
written(points, lost, i) ==
    LET calls == [j \in 1..Len(points) |-> [point |-> points[j], fails |-> j \in lost]]
    IN  SubSeq(calls, i, Len(calls))

\* write_each writing the points from the last to the first.
write_each_reversed(queue, points, lost, i) ==
    LET calls == written(points, lost, i)
    IN  queue \o [r \in 1..Len(calls) |-> calls[Len(calls) + 1 - r]]

\* The write calls of a loop over points from entry i on: one write per
\* entry, in the order of the entries.
write_each(queue, points, lost, i) ==
    queue \o written(points, lost, i)

\* The points in the bucket and on their way to it.
points_held == Len(influx) + Len(write_queue)

\* The points of the given value in the bucket and on their way to it.
points_of(value) ==
    Cardinality({i \in DOMAIN influx : influx[i].value = value})
    + Cardinality({i \in DOMAIN write_queue : write_queue[i].point.value = value})

\* The optional start / end of a range request: omitted (None or ""), or
\* the instant its ISO string names (a whole second).
Omitted == [given |-> FALSE, time |-> 0]
At(time) == [given |-> TRUE, time |-> time]

RangeHours == 24       \* main.py:483  start_flux = "-24h"

\* start_flux: "-24h" counts back from the query's now(), the instant (t, us).
start_flux(start, t, us) ==
    IF ~start.given THEN [time |-> t - RangeHours * SecondsPerHour, us |-> us]
    ELSE [time |-> start.time, us |-> 0]

\* end_flux: now(), the instant (t, us).
end_flux(end, t, us) ==
    IF ~end.given THEN [time |-> t, us |-> us] ELSE [time |-> end.time, us |-> 0]

\* range(start: from, stop: to): start inclusive, stop exclusive.
in_range(p, from, to) ==
    /\ ~earlier(p.time, p.us, from.time, from.us)
    /\ earlier(p.time, p.us, to.time, to.us)

\* sort(columns: ["_time"], desc: false) over the rows of one series.
sort_by_time(rows) ==
    LET before(i) == {j \in rows : j # i /\ not_after(j, i)}
    IN  [r \in 1..Cardinality(rows) |->
            CHOOSE i \in rows : Cardinality(before(i)) = r - 1]

\* record.get_time().isoformat(): the UTC date (as days since the epoch),
\* the time of day, the microsecond and the +00:00 offset.
isoformat(time, us) ==
    [date |-> time \div SecondsPerDay,
     time |-> TimeOfDay(time % SecondsPerDay),
     microsecond |-> us,
     utcoffset |-> 0]

\* TemperatureResponse(time=..., value=..., room_id=...)
TemperatureResponse(p, room_id) ==
    [time |-> isoformat(p.time, p.us), value |-> p.value, room_id |-> room_id]

-----------------------------------------------------------------------------
(* Responses *)

\* What the handler op answered to (user_id, room_id): the HTTP status and
\* detail, and the fields the handlers fill in below.  A range request is
\* kept with its start and end and the instant (now, now_us) that now()
\* read when it ran; us and at_us are the microseconds of time and at.
Response(op, user_id, room_id, status, detail) ==
    [op |-> op, user_id |-> user_id, room_id |-> room_id, status |-> status,
     detail |-> detail, heating_on |-> FALSE, target_temp |-> 0,
     current_temp |-> 0, time |-> 0, count |-> 0,
     n |-> 0, timestamps |-> FALSE, at |-> 0,
     temperatures |-> <<>>, stamps |-> <<>>, lost |-> {}, results |-> <<>>,
     start |-> Omitted, end |-> Omitted, now |-> 0,
     us |-> 0, at_us |-> 0, now_us |-> 0]

\* The response of a batch request of n temperatures that started at naive
\* time (at, at_us), with or without (truthy) timestamps.
BatchResponse(user_id, room_id, status, detail, n, timestamps, at, at_us) ==
    [Response("post_temperature_batch", user_id, room_id, status, detail)
        EXCEPT !.n = n, !.timestamps = timestamps, !.at = at, !.at_us = at_us]

\* The body of the batch request kept with its response: the temperatures,
\* the timestamps ([] for None) and the entries whose write was lost.
BatchBody(response, temperatures, timestamps, lost) ==
    [response EXCEPT !.temperatures = temperatures,
                     !.stamps = timestamps.list,
                     !.lost = lost]

NoResponse == Response("none", 0, 0, 0, "")

\* The client's thread takes the oldest point of the queue and writes it to
\* the bucket; a write that fails is logged by the client and the point is
\* dropped.  No request is answered in this step.
flush_write ==
    /\ write_queue # <<>>
    /\ influx' = IF Head(write_queue).fails THEN influx
                 ELSE store(influx, Head(write_queue).point)
    /\ write_queue' = Tail(write_queue)
    /\ resp' = NoResponse
    /\ UNCHANGED <<rooms, room_settings, next_room_id, clock, clock_us, locations, room_detail, creating, server_tz, weather,
                   session, query_params, startup, imports>>

-----------------------------------------------------------------------------
(* Timestamps of a batch: Optional[list[str]] and datetime.fromisoformat *)

None == [present |-> FALSE, list |-> <<>>]
Some(list) == [present |-> TRUE, list |-> list]

\* A JSON null among the entries of timestamps: the strings of the model
\* stand for JSON strings, this value for null.
Null == "(null)"

\* timestamps: Optional[list[str]] (models.py 63): whether the value passes
\* the validation of the request body, which refuses a list with an entry
\* that is not a string.
list_of_str(timestamps) ==
    \A i \in DOMAIN timestamps.list : timestamps.list[i] # Null

\* Python truth value of batch.timestamps.
truthy(timestamps) == timestamps.present /\ timestamps.list # <<>>

StartClock == 10 * SecondsPerDay + 12 * SecondsPerHour   \* 1970-01-11T12:00:00Z

\* str.replace('Z', '+00:00') on the strings the model feeds in.
replace_Z(s) ==
    CASE s = "1970-01-12T12:00:00Z" -> "1970-01-12T12:00:00+00:00"
      [] OTHER -> s

\* datetime.fromisoformat: [ok, time, us]; ok = FALSE stands for ValueError.
\* An aware value is stored at its instant, a naive one as if it were UTC.
fromisoformat(s) ==
    CASE s = "1970-01-12T12:00:00+00:00" ->
            [ok |-> TRUE, time |-> 11 * SecondsPerDay + 12 * SecondsPerHour, us |-> 0]
      [] s = "1970-01-12T12:00:00Z" ->
            [ok |-> TRUE, time |-> 11 * SecondsPerDay + 12 * SecondsPerHour, us |-> 0]
      [] s = "1970-01-12T14:00:00+02:00" ->
            [ok |-> TRUE, time |-> 11 * SecondsPerDay + 12 * SecondsPerHour, us |-> 0]
      [] s = "1970-01-12T12:00:00" ->
            [ok |-> TRUE, time |-> 11 * SecondsPerDay + 12 * SecondsPerHour, us |-> 0]
      [] OTHER -> [ok |-> FALSE, time |-> 0, us |-> 0]

\* batch_timestamp taking the 1-based i for the 0-based index of the loop.
\* The timestamp of entry i (1-based) of a batch, whose pass read
\* datetime.now() as (now, us) at line 450: the parsed entry, the reading of
\* line 455 (taken tick microseconds after the first) when the entry does
\* not parse, or the reading of line 450.
batch_timestamp(timestamps, i, now, us, tick) ==
    IF truthy(timestamps) /\ i <= Len(timestamps.list)
    THEN LET parsed == fromisoformat(replace_Z(timestamps.list[i]))
         IN  IF parsed.ok THEN [time |-> parsed.time, us |-> parsed.us]
             ELSE plus_us(now, us, tick)
    ELSE [time |-> now, us |-> us]

\* Whether the pass of entry i of a batch reads datetime.now() a second
\* time, in the except ValueError of line 454.
raises_ValueError(timestamps, i) ==
    /\ truthy(timestamps) /\ i <= Len(timestamps.list)
    /\ ~fromisoformat(replace_Z(timestamps.list[i])).ok

\* The readings of datetime.now() the passes before pass i of the batch
\* loop make.
readings_before(timestamps, i) ==
    (i - 1) + Cardinality({j \in 1..(i - 1) : raises_ValueError(timestamps, j)})

\* The instant of the first reading of datetime.now() in pass i of a loop.
\* The first reading of the loop is at (t, us) and the readings follow each
\* other tick microseconds apart (none, when the clock shows the same
\* microsecond to two readings), but that after pass k the clock has moved
\* on to (t2, us2).  made and made_k count the readings of the passes
\* before pass i and of the passes up to pass k.
iteration_instant(t, us, i, k, t2, us2, made, made_k, tick) ==
    IF i <= k THEN plus_us(t, us, made * tick)
    ELSE plus_us(t2, us2, (made - made_k) * tick)

\* The instant of the last reading of a loop of n passes, or the instant
\* the loop was at last when it read nothing there.
loop_end(t, us, n, k, t2, us2, made, made_k, tick) ==
    IF k < n
    THEN plus_us(t2, us2, IF made > made_k THEN (made - made_k - 1) * tick ELSE 0)
    ELSE plus_us(t, us, IF made > 0 THEN (made - 1) * tick ELSE 0)

-----------------------------------------------------------------------------
(* The dashboard session and the start of the API, as they are before the *)
(* dashboard is opened and before create_tables is called.                 *)

\* No token, no user: Python's None.
NoToken == 0
NoUser == 0

\* SessionManager.__init__ (dashboard.py 49-54)
SessionManager ==
    [token |-> NoToken, user |-> NoUser, current_room |-> 0,
     show_user_profile |-> FALSE, user_timezone |-> "UTC"]

\* wait_for_mysql not called yet.
NotCalled == [pc |-> "idle", retries |-> 0, delay |-> 0, i |-> 0, attempts |-> 0]

\* The threads of the pool that run import_testdata (a def, not an async
\* def: main.py 186), and a thread that runs no import.
ImportThreads == {1, 2}
NotImporting == [pc |-> "idle", user_id |-> 0, rows |-> <<>>, now |-> 0,
                 room_mapping |-> <<>>, points |-> <<>>]
NoImports == [thread \in ImportThreads |-> NotImporting]

\* The users table as the registrations left it: the coordinates of user 1
\* are the defaults of UserCreate (models.py 13-14: Berlin), those of
\* user 2 lie in New York.
Registered == [user \in Users |-> IF user = 1 THEN "Europe/Berlin" ELSE "America/New_York"]

\* No settings: Python's None.
NoSettings == [timezone |-> "", wanted_temp_day |-> 0, wanted_temp_night |-> 0,
               night_start |-> <<>>, night_end |-> <<>>]

\* page_room_detail has not run: nothing fetched, nothing shown.
NotShown == [pc |-> "none", user_id |-> 0, room_id |-> 0, settings |-> NoSettings,
             current_target |-> 0, now |-> 0]

\* No call of create_room is between two of its statements.
NotCreating == [pc |-> "idle", user_id |-> 0, name |-> "", room_id |-> 0]

-----------------------------------------------------------------------------
(* The weather background task: main.py 80-126                             *)

SleepSeconds == 600    \* main.py:120  await asyncio.sleep(600)

\* The task as startup_event creates it: about to run its first cycle, the
\* timer of its sleep not set yet.
WeatherStarted ==
    [pc |-> "cycle", load |-> "none", users |-> <<>>, outcomes |-> <<>>,
     wake |-> 0, wake_us |-> 0]

NoTemp == -1000        \* current.get("temperature_2m", None) is None

\* What the fetch for one location comes to: an exception of requests.get
\* ("timeout"), of raise_for_status ("http_error"), of response.json() or of
\* the .get calls on what it returned ("malformed"); a body without
\* temperature_2m ("missing"); or a temperature ("ok", and "write_lost"
\* when the write of the point then fails).
fetch(outcome) ==
    CASE outcome \in {"timeout", "http_error", "malformed"} ->
            [raised |-> TRUE, weather_temp |-> NoTemp]
      [] outcome = "missing" -> [raised |-> FALSE, weather_temp |-> NoTemp]
      [] outcome \in {"ok", "write_lost"} -> [raised |-> FALSE, weather_temp |-> Tenths(75)]

\* Point("weather_temperature").tag("user_id", ..).field("value", ..).time(..)
\* The point has no room_id tag: room_id 0.
weather_point(user_id, value, time, us) ==
    [measurement |-> "weather_temperature", user_id |-> user_id, room_id |-> 0,
     value |-> value, time |-> time, us |-> us]

\* no_sample with an exception at one location ending the for loop.
no_sample_aborting(outcomes) ==
    {i \in DOMAIN outcomes :
        \/ \E j \in 1..i : fetch(outcomes[j]).raised
        \/ fetch(outcomes[i]).weather_temp = NoTemp
        \/ outcomes[i] = "write_lost"}

\* The locations of a cycle that put no sample in the bucket: the inner
\* try/except ends the work on the location that raised, the None test
\* skips the write, or the write fails behind the call.
no_sample(outcomes) ==
    {i \in DOMAIN outcomes :
        \/ fetch(outcomes[i]).raised
        \/ fetch(outcomes[i]).weather_temp = NoTemp
        \/ outcomes[i] = "write_lost"}

\* The write calls of a cycle, in the order of the locations: one for each
\* location that came to a temperature.
handed(points, outcomes) ==
    LET calls == [i \in DOMAIN points |->
                    [i |-> i, point |-> points[i], fails |-> outcomes[i] = "write_lost"]]
        made == SelectSeq(calls,
                    LAMBDA c : ~(c.i \in no_sample(outcomes)) \/ outcomes[c.i] = "write_lost")
    IN  [r \in DOMAIN made |-> [point |-> made[r].point, fails |-> made[r].fails]]

\* after_cycle without the outer try/except: the exception ends the task.
after_cycle_unguarded(load) == IF load = "failed" THEN "dead" ELSE "sleep"

\* Where the task stands after the try/except of one pass: at the sleep.
after_cycle(load) == "sleep"

\* after_sleep without the while True.
after_sleep_once == "done"

\* Where the task stands after the sleep: at the top of while True.
after_sleep == "cycle"

\* The locations before location i of a cycle that came to a temperature:
\* each read datetime.now() once (104).
stamped_before(outcomes, i) ==
    Cardinality({j \in DOMAIN outcomes :
                    /\ j < i
                    /\ ~fetch(outcomes[j]).raised
                    /\ fetch(outcomes[j]).weather_temp # NoTemp})

\* One pass of the while True body up to the call of the sleep, starting at
\* instant (t, us).  load tells whether the SELECT of the users raised,
\* users are its rows, outcomes[i] is what location i meets; after location
\* k the clock has moved on to (t2, us2), and two readings of the clock
\* are tick microseconds apart.  asyncio.sleep(600) is called at the
\* instant the pass ends at: its timer is set 600 s later.
fetch_and_store_weather_data(load, users, outcomes, t, us, k, t2, us2, tick) ==
    LET n == Len(users)
        at(i) == iteration_instant(t, us, i, k, t2, us2, stamped_before(outcomes, i),
                                   stamped_before(outcomes, k + 1), tick)
        points == [i \in 1..n |->
                    weather_point(users[i], fetch(outcomes[i]).weather_temp,
                                  NowAt(at(i).time), at(i).us)]
        ends == IF load = "failed" THEN [time |-> t, us |-> us]
                ELSE loop_end(t, us, n, k, t2, us2, stamped_before(outcomes, n + 1),
                              stamped_before(outcomes, k + 1), tick)
    IN  /\ weather.pc = "cycle"
        /\ Len(outcomes) = Len(users)
        /\ clock' = ends.time
        /\ clock_us' = ends.us
        /\ UNCHANGED <<rooms, room_settings, next_room_id, locations, room_detail, creating, server_tz, resp,
                    session, query_params, startup, imports, influx>>
        /\ IF load = "failed"
           THEN /\ UNCHANGED write_queue
                /\ weather' = [pc |-> after_cycle(load), load |-> load, users |-> <<>>,
                               outcomes |-> <<>>,
                               wake |-> ends.time + SleepSeconds, wake_us |-> ends.us]
           ELSE /\ write_queue' = write_queue \o handed(points, outcomes)
                /\ weather' = [pc |-> after_cycle(load), load |-> load, users |-> users,
                               outcomes |-> outcomes,
                               wake |-> ends.time + SleepSeconds, wake_us |-> ends.us]

\* The instant at which the sleep ends when nothing keeps the event loop:
\* the instant its timer is set to, or the present one when that is past.
sleep_ends ==
    IF earlier(weather.wake, weather.wake_us, clock, clock_us)
    THEN [time |-> clock, us |-> clock_us]
    ELSE [time |-> weather.wake, us |-> weather.wake_us]

\* await asyncio.sleep(600), which ends at instant (t, us).
weather_sleep(t, us) ==
    /\ weather.pc = "sleep"
    /\ clock' = t
    /\ clock_us' = us
    /\ weather' = [weather EXCEPT !.pc = after_sleep]
    /\ UNCHANGED <<rooms, room_settings, next_room_id, influx, locations, room_detail, creating, server_tz, resp,
                    session, query_params, startup, imports, write_queue>>

(* The same pass statement by statement.  pc names the statement the task  *)
(* runs next: "cycle" the SELECT of the users (84), "fetch" the            *)
(* requests.get of the next location (88-101), "write" the write of the    *)
(* location just fetched (104-111), "sleep" the end of the sleep (120).    *)
(* outcomes holds what the locations worked on so far have met, wake the   *)
(* instant the sleep ends at the earliest.                                 *)

\* after_location with the for loop left after its first pass.
after_location_first_only(users, i) == "sleep"

\* The statement after the work on location i: the next pass of the for
\* loop, or the sleep after the last one.
after_location(users, i) == IF i < Len(users) THEN "fetch" ELSE "sleep"

\* asyncio.sleep(600) is called in the step that gets to it, at instant
\* (t, us): the timer is set to 600 s after it.
sleep_until(pc, t, us) ==
    IF pc = "sleep" THEN [time |-> t + SleepSeconds, us |-> us]
    ELSE [time |-> weather.wake, us |-> weather.wake_us]

\* db.execute_query("SELECT id, latitude, longitude FROM users") and
\* "if users:" at instant (t, us).
load_users(load, users, t, us) ==
    LET pc == IF load = "failed" \/ users = <<>> THEN after_cycle(load) ELSE "fetch"
    IN  /\ weather.pc = "cycle"
        /\ load = "failed" => users = <<>>
        /\ clock' = t
        /\ clock_us' = us
        /\ weather' = [pc |-> pc, load |-> load, users |-> users, outcomes |-> <<>>,
                       wake |-> sleep_until(pc, t, us).time,
                       wake_us |-> sleep_until(pc, t, us).us]
        /\ UNCHANGED <<rooms, room_settings, next_room_id, influx, locations, room_detail, creating, server_tz, resp,
                    session, query_params, startup, imports, write_queue>>

\* requests.get ... current.get("temperature_2m", None) for the next
\* location, ending at instant (t, us) with the given outcome ("ok" when a
\* temperature came back).
fetch_location(outcome, t, us) ==
    LET i == Len(weather.outcomes) + 1
        pc == IF fetch(outcome).raised \/ fetch(outcome).weather_temp = NoTemp
              THEN after_location(weather.users, i) ELSE "write"
    IN  /\ weather.pc = "fetch"
        /\ outcome # "write_lost"
        /\ clock' = t
        /\ clock_us' = us
        /\ weather' = [weather EXCEPT !.outcomes = Append(@, outcome),
                                      !.pc = pc,
                                      !.wake = sleep_until(pc, t, us).time,
                                      !.wake_us = sleep_until(pc, t, us).us]
        /\ UNCHANGED <<rooms, room_settings, next_room_id, influx, locations, room_detail, creating, server_tz, resp,
                    session, query_params, startup, imports, write_queue>>

\* timestamp = datetime.now() ... write_api.write(record=point) for the
\* location just fetched, at instant (t, us).
write_location(fails, t, us) ==
    LET i == Len(weather.outcomes)
        point == weather_point(weather.users[i],
                               fetch(weather.outcomes[i]).weather_temp, NowAt(t), us)
        pc == after_location(weather.users, i)
    IN  /\ weather.pc = "write"
        /\ clock' = t
        /\ clock_us' = us
        /\ write_queue' = write(write_queue, point, fails)
        /\ weather' = [weather EXCEPT !.outcomes[i] = IF fails THEN "write_lost" ELSE @,
                                      !.pc = pc,
                                      !.wake = sleep_until(pc, t, us).time,
                                      !.wake_us = sleep_until(pc, t, us).us]
        /\ UNCHANGED <<rooms, room_settings, next_room_id, locations, room_detail, creating, server_tz, resp,
                    session, query_params, startup, imports, influx>>

\* The sleep set to end at (weather.wake, weather.wake_us) ends at instant
\* (t, us), no earlier.
end_sleep(t, us) ==
    /\ ~earlier(t, us, weather.wake, weather.wake_us)
    /\ weather_sleep(t, us)

\* The event loop runs one coroutine at a time and changes over at an await
\* only.  The task has a single await, the sleep of line 120: from the SELECT
\* to the sleep it keeps the loop, and the async def handlers wait.
event_loop_free == weather.pc \in {"cycle", "sleep"}

-----------------------------------------------------------------------------
(* Request handlers.  Each runs at an instant (t, us), not before the      *)
(* clock.                                                                  *)

\* The zones the API process runs in.
ServerZones == {"UTC", "Europe/Berlin"}

\* The microsecond of the clock as long as nothing has run in its second:
\* a first step may come at microsecond 0.
NotYet == -1

Init ==
    /\ rooms = {}
    /\ room_settings = {}
    /\ next_room_id = 1
    /\ influx = <<>>
    /\ clock = StartClock
    /\ clock_us = NotYet
    /\ server_tz \in ServerZones
    /\ resp = NoResponse
    /\ session = SessionManager
    /\ query_params = NoToken
    /\ startup = NotCalled
    /\ write_queue = <<>>
    /\ imports = NoImports
    /\ locations = Registered
    /\ room_detail = NotShown
    /\ creating = NotCreating
    /\ weather = WeatherStarted

\* POST /rooms statement by statement, for the specifications in which the
\* threads of the pool run between two statements of the handler (its
\* execute_query calls block the event loop, so that no other handler of
\* the loop does).  The first: INSERT INTO rooms (307), which raises on a
\* duplicate (user_id, name); the except clause answers 400.
create_room_insert(user_id, name) ==
    LET duplicate == \E row \in rooms : row.user_id = user_id /\ row.name = name
    IN  /\ creating.pc = "idle"
        /\ UNCHANGED <<room_settings, influx, clock, clock_us, locations, room_detail,
                       server_tz, weather, session, query_params, startup, imports,
                       write_queue>>
        /\ IF duplicate
           THEN /\ UNCHANGED <<rooms, next_room_id, creating>>
                /\ resp' = Response("create_room", user_id, 0, 400, "Could not create room")
           ELSE /\ rooms' = rooms \cup
                        {[id |-> next_room_id, user_id |-> user_id, name |-> name]}
                /\ next_room_id' = next_room_id + 1
                /\ creating' = [pc |-> "select", user_id |-> user_id, name |-> name,
                                room_id |-> 0]
                /\ resp' = NoResponse

\* The second: SELECT id, user_id, name ... [0] (308-310), an IndexError
\* when the room is gone.
create_room_select ==
    LET new_room == {row \in rooms : row.user_id = creating.user_id
                                      /\ row.name = creating.name}
    IN  /\ creating.pc = "select"
        /\ UNCHANGED <<rooms, room_settings, next_room_id, influx, clock, clock_us, locations,
                       room_detail, server_tz, weather, session, query_params, startup,
                       imports, write_queue>>
        /\ IF new_room = {}
           THEN /\ creating' = NotCreating
                /\ resp' = Response("create_room", creating.user_id, 0, 400,
                                    "Could not create room")
           ELSE /\ creating' = [creating EXCEPT
                        !.pc = "insert_settings",
                        !.room_id = (CHOOSE row \in new_room : TRUE).id]
                /\ resp' = NoResponse

\* The third: INSERT INTO room_settings (313-317) and the answer (318).
\* The foreign key on rooms(id) makes the INSERT raise when the room is
\* gone; fails tells whether it raises for another reason.
create_room_insert_settings(fails) ==
    /\ creating.pc = "insert_settings"
    /\ creating' = NotCreating
    /\ UNCHANGED <<rooms, next_room_id, influx, clock, clock_us, locations, room_detail,
                   server_tz, weather, session, query_params, startup, imports,
                   write_queue>>
    /\ IF fails \/ ~\E row \in rooms : row.id = creating.room_id
       THEN /\ UNCHANGED room_settings
            /\ resp' = Response("create_room", creating.user_id, 0, 400,
                                "Could not create room")
       ELSE /\ room_settings' = room_settings \cup
                    {default_settings(creating.user_id, creating.room_id)}
            /\ resp' = Response("create_room", creating.user_id, creating.room_id, 200, "")

\* POST /rooms in one step, for the specifications in which nothing runs
\* between its statements.  fault names the query that raises, "none" if
\* none does; a duplicate (user_id, name) makes the first INSERT raise by
\* itself.  Every execute_query commits on its own, so what ran before the
\* fault stays (a failing SELECT leaves what a failing INSERT of the
\* settings leaves).
create_room(user_id, name, fault, t, us) ==
    LET duplicate == \E row \in rooms : row.user_id = user_id /\ row.name = name
        new_room == [id |-> next_room_id, user_id |-> user_id, name |-> name]
    IN  /\ clock' = t
        /\ clock_us' = us
        /\ UNCHANGED <<influx, locations, room_detail, creating, server_tz, weather,
                    session, query_params, startup, imports, write_queue>>
        /\ IF duplicate \/ fault = "insert_room"
           THEN /\ UNCHANGED <<rooms, room_settings, next_room_id>>
                /\ resp' = Response("create_room", user_id, 0, 400, "Could not create room")
           ELSE /\ rooms' = rooms \cup {new_room}
                /\ next_room_id' = next_room_id + 1
                /\ IF fault = "none"
                   THEN /\ room_settings' = room_settings \cup
                                {default_settings(user_id, new_room.id)}
                        /\ resp' = Response("create_room", user_id, new_room.id, 200, "")
                   ELSE /\ UNCHANGED room_settings
                        /\ resp' = Response("create_room", user_id, 0, 400,
                                            "Could not create room")

\* delete(start="1970-01-01T00:00:00Z", stop=datetime.now().isoformat() + "Z"):
\* the points from the epoch up to the naive now (stop, stop_us) read as
\* UTC.
in_delete_range(p, stop, stop_us) ==
    0 <= p.time /\ ~earlier(stop, stop_us, p.time, p.us)

\* delete_points with a predicate that leaves the room_id tag out.
delete_points_of_owner(user_id, room_id, stop, stop_us) ==
    SelectSeq(influx,
        LAMBDA p : ~(/\ p.measurement = "temperature"
                     /\ p.user_id = user_id
                     /\ in_delete_range(p, stop, stop_us)))

\* What delete_api.delete leaves in the bucket.
delete_points(user_id, room_id, stop, stop_us) ==
    SelectSeq(influx,
        LAMBDA p : ~(matches(p, user_id, room_id) /\ in_delete_range(p, stop, stop_us)))

\* DELETE /rooms/{room_id}.  fault names the call that raises: "delete_api"
\* (caught and printed), "delete_rooms" (the SQL DELETE, not caught), or
\* "none".  The foreign key of room_settings deletes the room's schedule with
\* the room (sql.py 63: ON DELETE CASCADE).
delete_room(user_id, room_id, fault, t, us) ==
    /\ clock' = t
    /\ clock_us' = us
    /\ UNCHANGED <<next_room_id, locations, room_detail, creating, server_tz, weather,
                    session, query_params, startup, imports, write_queue>>
    /\ IF ~room_belongs_to(user_id, room_id)
       THEN /\ UNCHANGED <<rooms, room_settings, influx>>
            /\ resp' = Response("delete_room", user_id, room_id, 404,
                                "Room not found or access denied")
       ELSE /\ influx' = IF fault = "delete_api" THEN influx
                         ELSE delete_points(user_id, room_id, NowAt(t), us)
            /\ IF fault = "delete_rooms"
               THEN /\ UNCHANGED <<rooms, room_settings>>
                    /\ resp' = Response("delete_room", user_id, room_id, 500,
                                        "Internal Server Error")
               ELSE /\ rooms' = {row \in rooms : row.id # room_id}
                    /\ room_settings' = {row \in room_settings : row.room_id # room_id}
                    /\ resp' = Response("delete_room", user_id, room_id, 200,
                                "Room and all temperature data deleted successfully")

\* PUT /rooms/{room_id}/settings
update_room_settings(user_id, room_id, settings, t, us) ==
    LET new_row == [user_id |-> user_id, room_id |-> room_id,
                    timezone |-> settings.timezone,
                    wanted_temp_day |-> settings.wanted_temp_day,
                    wanted_temp_night |-> settings.wanted_temp_night,
                    night_start |-> settings.night_start,
                    night_end |-> settings.night_end]
    IN  /\ clock' = t
        /\ clock_us' = us
        /\ UNCHANGED <<rooms, next_room_id, influx, locations, room_detail, creating, server_tz, weather,
                    session, query_params, startup, imports, write_queue>>
        /\ IF ~room_belongs_to(user_id, room_id)
           THEN /\ UNCHANGED room_settings
                /\ resp' = Response("update_room_settings", user_id, room_id, 404,
                                    "Room not found or access denied")
           ELSE IF settings_of(user_id, room_id) = {}
           THEN /\ UNCHANGED room_settings
                /\ resp' = Response("update_room_settings", user_id, room_id, 404,
                                    "Room settings not found")
           ELSE /\ room_settings' =
                        (room_settings \ settings_of(user_id, room_id)) \cup {new_row}
                /\ resp' = Response("update_room_settings", user_id, room_id, 200,
                                    "Settings updated successfully")

\* POST /temperature
post_temperature(user_id, room_id, temperature, t, us) ==
    /\ clock' = t
    /\ clock_us' = us
    /\ UNCHANGED <<rooms, room_settings, next_room_id, locations, room_detail, creating, server_tz, weather,
                    session, query_params, startup, imports, influx>>
    /\ IF ~room_belongs_to(user_id, room_id)
       THEN /\ UNCHANGED write_queue
            /\ resp' = Response("post_temperature", user_id, room_id, 404,
                                "Room not found or access denied")
       ELSE /\ write_queue' = write(write_queue,
                    temperature_point(user_id, room_id, temperature, NowAt(t), us),
                    FALSE)
            /\ resp' = [Response("post_temperature", user_id, room_id, 200,
                                 "Temperature recorded") EXCEPT !.count = 1]

\* The point of entry i of a batch, its pass reading the naive time
\* (now, us) at line 450.
batch_point(user_id, room_id, temperatures, timestamps, i, now, us, tick) ==
    LET timestamp == batch_timestamp(timestamps, i, now, us, tick)
    IN  temperature_point(user_id, room_id, temperatures[i], timestamp.time, timestamp.us)

\* The instant of the reading of line 450 in pass i of the batch loop.
batch_reading(timestamps, i, t, us, k, t2, us2, tick) ==
    iteration_instant(t, us, i, k, t2, us2, readings_before(timestamps, i),
                      readings_before(timestamps, k + 1), tick)

\* The instant of the last reading of the loop over n entries.
batch_end(timestamps, n, t, us, k, t2, us2, tick) ==
    loop_end(t, us, n, k, t2, us2, readings_before(timestamps, n + 1),
             readings_before(timestamps, k + 1), tick)

\* batch_points with the loop starting at the second entry.
batch_points(user_id, room_id, temperatures, timestamps, t, us, k, t2, us2, tick) ==
    [i \in 1..Len(temperatures) |->
        LET at == batch_reading(timestamps, i, t, us, k, t2, us2, tick)
        IN  batch_point(user_id, room_id, temperatures, timestamps, i,
                        NowAt(at.time), at.us, tick)]

\* too_many with >= for >.
too_many_at_limit(n) == n >= MaxBatch

\* len(batch.temperatures) > 100
too_many(n) == n > MaxBatch

\* post_temperature_batch with the size check ahead of the ownership check.
post_temperature_batch_size_first(user_id, room_id, temperatures, timestamps, t, us, k, t2, us2, tick, lost) ==
    LET n == Len(temperatures)
    IN  /\ UNCHANGED <<rooms, room_settings, next_room_id, locations, room_detail, creating, server_tz, weather,
                    session, query_params, startup, imports, influx>>
        /\ IF ~list_of_str(timestamps)
           THEN /\ UNCHANGED write_queue
                /\ clock' = t
                /\ clock_us' = us
                /\ resp' = BatchBody(BatchResponse(user_id, room_id, 422,
                        "Unprocessable Entity", n, truthy(timestamps), NowAt(t), us),
                        temperatures, timestamps, {})
           ELSE IF too_many(n)
           THEN /\ UNCHANGED write_queue
                /\ clock' = t
                /\ clock_us' = us
                /\ resp' = BatchBody(BatchResponse(user_id, room_id, 400,
                        "Maximum 100 temperatures per request", n, truthy(timestamps), NowAt(t), us),
                        temperatures, timestamps, {})
           ELSE IF ~room_belongs_to(user_id, room_id)
           THEN /\ UNCHANGED write_queue
                /\ clock' = t
                /\ clock_us' = us
                /\ resp' = BatchBody(BatchResponse(user_id, room_id, 404,
                        "Room not found or access denied", n, truthy(timestamps), NowAt(t), us),
                        temperatures, timestamps, {})
           ELSE /\ write_queue' = write_each(write_queue,
                        batch_points(user_id, room_id, temperatures, timestamps,
                                     t, us, k, t2, us2, tick),
                        lost, 1)
                /\ clock' = batch_end(timestamps, n, t, us, k, t2, us2, tick).time
                /\ clock_us' = batch_end(timestamps, n, t, us, k, t2, us2, tick).us
                /\ resp' = BatchBody([BatchResponse(user_id, room_id, 200,
                                "temperatures recorded", n, truthy(timestamps), NowAt(t), us)
                                EXCEPT !.count = n],
                        temperatures, timestamps, lost \cap (1..n))

\* POST /temperature/batch.  A body that fails the validation of
\* TemperatureEntryBatch is answered 422 before the handler is called.  The
\* loop starts at (t, us); two readings of the clock are tick microseconds
\* apart, but that after iteration k the clock has moved on to (t2, us2);
\* lost holds the entries whose write fails.
post_temperature_batch(user_id, room_id, temperatures, timestamps, t, us, k, t2, us2, tick, lost) ==
    LET n == Len(temperatures)
    IN  /\ UNCHANGED <<rooms, room_settings, next_room_id, locations, room_detail, creating, server_tz, weather,
                    session, query_params, startup, imports, influx>>
        /\ IF ~list_of_str(timestamps)
           THEN /\ UNCHANGED write_queue
                /\ clock' = t
                /\ clock_us' = us
                /\ resp' = BatchBody(BatchResponse(user_id, room_id, 422,
                        "Unprocessable Entity", n, truthy(timestamps), NowAt(t), us),
                        temperatures, timestamps, {})
           ELSE IF ~room_belongs_to(user_id, room_id)
           THEN /\ UNCHANGED write_queue
                /\ clock' = t
                /\ clock_us' = us
                /\ resp' = BatchBody(BatchResponse(user_id, room_id, 404,
                        "Room not found or access denied", n, truthy(timestamps), NowAt(t), us),
                        temperatures, timestamps, {})
           ELSE IF too_many(n)
           THEN /\ UNCHANGED write_queue
                /\ clock' = t
                /\ clock_us' = us
                /\ resp' = BatchBody(BatchResponse(user_id, room_id, 400,
                        "Maximum 100 temperatures per request", n, truthy(timestamps), NowAt(t), us),
                        temperatures, timestamps, {})
           ELSE /\ write_queue' = write_each(write_queue,
                        batch_points(user_id, room_id, temperatures, timestamps,
                                     t, us, k, t2, us2, tick),
                        lost, 1)
                /\ clock' = batch_end(timestamps, n, t, us, k, t2, us2, tick).time
                /\ clock_us' = batch_end(timestamps, n, t, us, k, t2, us2, tick).us
                /\ resp' = BatchBody([BatchResponse(user_id, room_id, 200,
                                "temperatures recorded", n, truthy(timestamps), NowAt(t), us)
                                EXCEPT !.count = n],
                        temperatures, timestamps, lost \cap (1..n))

\* The answer of GET /temperature/{room_id}/latest/ at (t, us).
latest_temperature(user_id, room_id, t, us) ==
    LET last == last_row(lookback_rows(user_id, room_id, t, us))
    IN  IF ~room_belongs_to(user_id, room_id)
        THEN Response("get_latest_temperature", user_id, room_id, 404, "Room not found")
        ELSE IF last = 0
        THEN Response("get_latest_temperature", user_id, room_id, 404,
                      "No temperature data found")
        ELSE [Response("get_latest_temperature", user_id, room_id, 200, "")
                EXCEPT !.time = influx[last].time,
                       !.us = influx[last].us,
                       !.current_temp = influx[last].value]

\* GET /temperature/{room_id}/latest/
get_latest_temperature(user_id, room_id, t, us) ==
    /\ clock' = t
    /\ clock_us' = us
    /\ UNCHANGED <<rooms, room_settings, next_room_id, influx, locations, room_detail, creating, server_tz, weather,
                    session, query_params, startup, imports, write_queue>>
    /\ resp' = latest_temperature(user_id, room_id, t, us)

\* GET /temperature/{room_id}?start=..&end=..  A range whose start is not
\* before its stop is refused by the query engine, and the error is not
\* caught.
get_room_temperatures(user_id, room_id, start, end, t, us) ==
    LET from == start_flux(start, t, us)
        to == end_flux(end, t, us)
        rows == {i \in DOMAIN influx :
                    matches(influx[i], user_id, room_id) /\ in_range(influx[i], from, to)}
        sorted == sort_by_time(rows)
        asked == [Response("get_room_temperatures", user_id, room_id, 200, "")
                    EXCEPT !.start = start, !.end = end, !.now = t, !.now_us = us]
    IN  /\ clock' = t
        /\ clock_us' = us
        /\ UNCHANGED <<rooms, room_settings, next_room_id, influx, locations, room_detail, creating, server_tz, weather,
                    session, query_params, startup, imports, write_queue>>
        /\ IF ~room_belongs_to(user_id, room_id)
           THEN resp' = [asked EXCEPT !.status = 404, !.detail = "Room not found"]
           ELSE IF ~earlier(from.time, from.us, to.time, to.us)
           THEN resp' = [asked EXCEPT !.status = 500, !.detail = "empty range"]
           ELSE resp' = [asked EXCEPT !.results =
                            [r \in 1..Len(sorted) |->
                                TemperatureResponse(influx[sorted[r]], room_id)]]

\* GET /weather_temperature?start=..&end=..  The series is the caller's
\* weather_temperature; the entries carry room_id 0.
get_weather_temperatures(user_id, start, end, t, us) ==
    LET from == start_flux(start, t, us)
        to == end_flux(end, t, us)
        rows == {i \in DOMAIN influx :
                    /\ influx[i].measurement = "weather_temperature"
                    /\ influx[i].user_id = user_id
                    /\ in_range(influx[i], from, to)}
        sorted == sort_by_time(rows)
        asked == [Response("get_weather_temperatures", user_id, 0, 200, "")
                    EXCEPT !.start = start, !.end = end, !.now = t, !.now_us = us]
    IN  /\ clock' = t
        /\ clock_us' = us
        /\ UNCHANGED <<rooms, room_settings, next_room_id, influx, locations, room_detail, creating, server_tz, weather,
                    session, query_params, startup, imports, write_queue>>
        /\ IF ~earlier(from.time, from.us, to.time, to.us)
           THEN resp' = [asked EXCEPT !.status = 500, !.detail = "empty range"]
           ELSE resp' = [asked EXCEPT !.results =
                            [r \in 1..Len(sorted) |->
                                TemperatureResponse(influx[sorted[r]], 0)]]

\* get_heating_status that also records its verdict in the bucket.
get_heating_status_recording(user_id, room_id, t, us, t2, us2) ==
    LET settings == settings_of(user_id, room_id)
        last == last_row(lookback_rows(user_id, room_id, t2, us2))
        asked == [Response("get_heating_status", user_id, room_id, 200, "")
                    EXCEPT !.at = NowAt(t), !.at_us = us, !.now = t2, !.now_us = us2]
    IN  /\ ~earlier(t2, us2, t, us)
        /\ clock' = IF room_belongs_to(user_id, room_id) /\ settings # {} THEN t2 ELSE t
        /\ clock_us' = IF room_belongs_to(user_id, room_id) /\ settings # {} THEN us2 ELSE us
        /\ UNCHANGED <<rooms, room_settings, next_room_id, locations, room_detail, creating, server_tz, weather,
                    session, query_params, startup, imports, write_queue>>
        /\ IF ~room_belongs_to(user_id, room_id)
           THEN /\ UNCHANGED influx
                /\ resp' = Response("get_heating_status", user_id, room_id, 404,
                                    "Room not found")
           ELSE IF settings = {}
           THEN /\ UNCHANGED influx
                /\ resp' = Response("get_heating_status", user_id, room_id, 404,
                                    "Room settings not found")
           ELSE LET target == target_temp(CHOOSE row \in settings : TRUE, NowAt(t))
                IN  IF last = 0
                    THEN /\ UNCHANGED influx
                         /\ resp' = [asked EXCEPT !.status = 404, !.detail =
                                        "No temperature data found for this room"]
                    ELSE /\ influx' = Append(influx,
                                [measurement |-> "heating", user_id |-> user_id,
                                 room_id |-> room_id, value |-> target, time |-> NowAt(t),
                                 us |-> us])
                         /\ resp' = [asked
                                    EXCEPT !.heating_on = heating_on(influx[last].value, target),
                                           !.target_temp = target,
                                           !.current_temp = influx[last].value]

\* GET /heating_on/{room_id}.  The handler reads the clock twice: (t, us) is
\* its datetime.now() of line 732, from which the target is resolved, and
\* (t2, us2), no earlier, is the now() of the Flux query of lines 752-760,
\* which cuts the range of 7 days; a request refused before the query ends
\* at (t, us), reached or not.  The body of the response is heating_on
\* alone; target_temp and current_temp are the handler's locals of those
\* names, and (at, at_us), (now, now_us) keep the two readings.
get_heating_status(user_id, room_id, t, us, t2, us2) ==
    LET settings == settings_of(user_id, room_id)
        last == last_row(lookback_rows(user_id, room_id, t2, us2))
        asked == [Response("get_heating_status", user_id, room_id, 200, "")
                    EXCEPT !.at = NowAt(t), !.at_us = us, !.now = t2, !.now_us = us2]
    IN  /\ ~earlier(t2, us2, t, us)
        /\ clock' = IF room_belongs_to(user_id, room_id) /\ settings # {} THEN t2 ELSE t
        /\ clock_us' = IF room_belongs_to(user_id, room_id) /\ settings # {} THEN us2 ELSE us
        /\ UNCHANGED <<rooms, room_settings, next_room_id, influx, locations, room_detail, creating, server_tz, weather,
                    session, query_params, startup, imports, write_queue>>
        /\ IF ~room_belongs_to(user_id, room_id)
           THEN resp' = Response("get_heating_status", user_id, room_id, 404,
                                 "Room not found")
           ELSE IF settings = {}
           THEN resp' = Response("get_heating_status", user_id, room_id, 404,
                                 "Room settings not found")
           ELSE LET target == target_temp(CHOOSE row \in settings : TRUE, NowAt(t))
                IN  IF last = 0
                    THEN resp' = [asked EXCEPT !.status = 404, !.detail =
                                    "No temperature data found for this room"]
                    ELSE resp' = [asked
                                    EXCEPT !.heating_on = heating_on(influx[last].value, target),
                                           !.target_temp = target,
                                           !.current_temp = influx[last].value]

-----------------------------------------------------------------------------
(* The dashboard's wanted temperature: dashboard.py 395-415, fed by        *)
(* GET /rooms/{room_id}/settings (main.py 388-410).  A text of a time is   *)
(* the triple of the digit sequences of its hours, minutes and seconds.    *)

two_digits(n) == <<n \div 10, n % 10>>

\* A number written without leading zero (below 100).
digits(n) == IF n < 10 THEN <<n>> ELSE two_digits(n)

\* The number one or two digits spell.
number(ds) == IF Len(ds) = 1 THEN ds[1] ELSE 10 * ds[1] + ds[2]

\* str(timedelta) for less than a day: "H:MM:SS", hours without padding.
str_timedelta(seconds) ==
    <<digits(seconds \div SecondsPerHour),
      two_digits((seconds % SecondsPerHour) \div SecondsPerMinute),
      two_digits(seconds % SecondsPerMinute)>>

\* The parse of a time text into a datetime.time: by the time fields of the
\* RoomSettings model, and by datetime.strptime(text, "%H:%M:%S").time().
parse_time(text) == <<number(text[1]), number(text[2]), number(text[3])>>

\* datetime.time.isoformat(), the JSON form of a time field: "HH:MM:SS".
time_isoformat(tm) == <<two_digits(tm[1]), two_digits(tm[2]), two_digits(tm[3])>>

\* The JSON body of GET /rooms/{room_id}/settings for a room_settings row.
RoomSettings(row) ==
    [timezone |-> row.timezone,
     wanted_temp_day |-> row.wanted_temp_day,
     wanted_temp_night |-> row.wanted_temp_night,
     night_start |-> time_isoformat(parse_time(str_timedelta(row.night_start))),
     night_end |-> time_isoformat(parse_time(str_timedelta(row.night_end)))]

\* get_current_target_temp comparing the texts of the times as numbers of
\* hours alone.
get_current_target_temp_by_hour(settings, now) ==
    LET night_start == parse_time(settings.night_start)
        night_end == parse_time(settings.night_end)
        night == IF night_start[1] < night_end[1]
                 THEN night_start[1] <= now[1] /\ now[1] < night_end[1]
                 ELSE now[1] >= night_start[1] \/ now[1] < night_end[1]
    IN  IF night THEN settings.wanted_temp_night ELSE settings.wanted_temp_day

\* get_current_target_temp(room_id, settings) of the dashboard, with now =
\* datetime.now().time(); room_id is not used by the function.
get_current_target_temp(settings, now) ==
    LET night_start == parse_time(settings.night_start)
        night_end == parse_time(settings.night_end)
        night == IF TimeLess(night_start, night_end)
                 THEN TimeLeq(night_start, now) /\ TimeLess(now, night_end)
                 ELSE TimeLeq(night_start, now) \/ TimeLess(now, night_end)
    IN  IF night THEN settings.wanted_temp_night ELSE settings.wanted_temp_day

\* get_room_settings(room_id) of the dashboard (236-248) for the token of
\* user_id, on GET /rooms/{room_id}/settings (main.py 388-410): the JSON
\* body, and None when the request fails or is answered 404.  request is
\* what the request meets.
get_room_settings(user_id, room_id, request) ==
    LET settings == settings_of(user_id, room_id)
    IN  IF request # "ok" \/ ~room_belongs_to(user_id, room_id) \/ settings = {}
        THEN NoSettings
        ELSE RoomSettings(CHOOSE row \in settings : TRUE)

\* page_room_detail (dashboard.py 804-) runs in four steps, between which
\* the API serves other requests.  The first: a run of the script reaches
\* line 809 and fetches the settings.  A run starts wherever the run before
\* it stands, which it abandons.
page_get_room_settings(user_id, room_id, request) ==
    /\ room_detail' = [pc |-> "settings", user_id |-> user_id, room_id |-> room_id,
                       settings |-> get_room_settings(user_id, room_id, request),
                       current_target |-> 0, now |-> 0]
    /\ resp' = NoResponse
    /\ UNCHANGED <<rooms, room_settings, next_room_id, influx, clock, clock_us, locations,
                   creating, server_tz, weather, session, query_params, startup, imports,
                   write_queue>>

\* The second: the latest temperature is asked for (815) by
\* get_latest_temperature of the dashboard (270-285), which returns None
\* when the request fails, and the page goes on in either case.  request is
\* what the request meets: "ok", the API answers it at (t, us);
\* "http_error", the API answers 500 without an answer of the bucket;
\* "unreachable", no API answers.
page_get_latest_temperature(t, us, request) ==
    /\ room_detail.pc = "settings"
    /\ room_detail' = [room_detail EXCEPT !.pc = "latest"]
    /\ UNCHANGED <<rooms, room_settings, next_room_id, influx, locations, creating, server_tz,
                   weather, session, query_params, startup, imports, write_queue>>
    /\ CASE request = "ok" ->
                /\ clock' = t
                /\ clock_us' = us
                /\ resp' = latest_temperature(room_detail.user_id, room_detail.room_id,
                                              t, us)
         [] request = "http_error" ->
                /\ UNCHANGED <<clock, clock_us>>
                /\ resp' = Response("get_latest_temperature", room_detail.user_id,
                                    room_detail.room_id, 500, "Internal Server Error")
         [] OTHER ->
                /\ UNCHANGED <<clock, clock_us>>
                /\ resp' = NoResponse

\* The third (822-826): with settings, get_current_target_temp reads the
\* clock at (t, us) (398) and the wanted temperature is shown; with None the
\* page asks for the settings to be made.  The host of the dashboard keeps
\* the zone of the host of the API.
page_get_current_target_temp(t, us) ==
    LET shown == get_current_target_temp(room_detail.settings, TimePart(NowAt(t)))
    IN  /\ room_detail.pc = "latest"
        /\ UNCHANGED <<rooms, room_settings, next_room_id, influx, locations, creating,
                       server_tz, weather, session, query_params, startup, imports,
                       write_queue>>
        /\ IF room_detail.settings = NoSettings
           THEN /\ UNCHANGED <<clock, clock_us>>
                /\ room_detail' = [room_detail EXCEPT !.pc = "target"]
                /\ resp' = Response("get_current_target_temp", room_detail.user_id,
                                room_detail.room_id, 404,
                                "Please add wanted temperature in the settings")
           ELSE /\ clock' = t
                /\ clock_us' = us
                /\ room_detail' = [room_detail EXCEPT !.pc = "target",
                                                      !.current_target = shown,
                                                      !.now = NowAt(t)]
                /\ resp' = [Response("get_current_target_temp", room_detail.user_id,
                                     room_detail.room_id, 200, "")
                                EXCEPT !.target_temp = shown, !.at = NowAt(t), !.at_us = us]

-----------------------------------------------------------------------------
(* The dashboard session: dashboard.py 68-96, 150-191, 458-483, 1021-1029. *)
(* The token of user u is u, the user record /me returns for it is u.      *)
(* What a request of the dashboard meets is "ok", "http_error" (an error   *)
(* status, raised by raise_for_status) or "unreachable" (no connection).   *)

Requests == {"ok", "http_error", "unreachable"}

\* get_user_timezone for the token of a user: the zone the API finds for
\* the coordinates the users table (users) holds for the user (main.py
\* 200-218), "UTC" when the request fails (the exception is caught
\* inside).
get_user_timezone(users, user, timezone) ==
    IF timezone # "ok" THEN "UTC" ELSE users[user]

\* initialize_session, called at line 98 at the top of every run of the
\* script.  me is what GET /me meets.  With no token in the session and one
\* in the URL the token is taken (85) and /me is asked; when /me fails the
\* bare except (94-96) resets token and user, and when it answers, line 93
\* calls get_user_timezone, which the run has not defined yet (its def is
\* at line 381, below the call of line 98): the NameError lands in the
\* same except.  Either way token and user end as None.
initialize_session(me) ==
    /\ UNCHANGED <<rooms, room_settings, next_room_id, influx, clock, clock_us, locations, room_detail, creating, server_tz, resp,
                   weather, query_params, startup, imports, write_queue>>
    /\ IF session.token = NoToken /\ query_params # NoToken
       THEN IF me = "ok"
            THEN session' = [session EXCEPT !.token = NoToken, !.user = NoUser]
            ELSE session' = [session EXCEPT !.token = NoToken, !.user = NoUser]
       ELSE UNCHANGED session

\* login_user(email, password) with the credentials of user_id.  token, me
\* and timezone are what POST /token, GET /me and GET /timezone meet.  The
\* two except clauses return (False, message) and touch nothing.
login_user(user_id, token, me, timezone) ==
    /\ UNCHANGED <<rooms, room_settings, next_room_id, influx, clock, clock_us, locations, room_detail, creating, server_tz, resp,
                   weather, startup, imports, write_queue>>
    /\ IF token # "ok"
       THEN UNCHANGED <<session, query_params>>
       ELSE IF me # "ok"
       THEN /\ query_params' = user_id
            /\ session' = [session EXCEPT !.token = user_id]
       ELSE /\ query_params' = user_id
            /\ session' = [session EXCEPT !.token = user_id,
                                           !.user = user_id,
                                           !.user_timezone =
                                                get_user_timezone(locations, user_id, timezone)]

\* logout() and the rerun that follows it.  get_session_manager.clear()
\* drops the cached object, so the next run's get_session_manager() (59)
\* builds a new SessionManager; the URL holds no token any more.
logout ==
    /\ UNCHANGED <<rooms, room_settings, next_room_id, influx, clock, clock_us, locations, room_detail, creating, server_tz, resp,
                   weather, startup, imports, write_queue>>
    /\ query_params' = NoToken
    /\ session' = SessionManager

\* The page main() shows: dashboard.py 1021-1029.
page ==
    IF session.show_user_profile THEN "page_user_profile"
    ELSE IF session.token = NoToken THEN "page_login"
    ELSE IF session.current_room = 0 THEN "page_rooms"
    ELSE "page_room_detail"

\* render_topbar reaches line 476, session.user["email"]: with user None
\* it raises TypeError there, and nothing below that line is drawn.
topbar_drawn == session.user # NoUser

\* get_rooms(): the ids of the rooms GET /rooms lists for the session's
\* token, none when the request fails (the exception is caught, 203-205).
get_rooms(request) ==
    IF request # "ok" THEN {}
    ELSE {room.id : room \in {r \in rooms : r.user_id = session.token}}

\* The buttons of the pages that change the session: the user's button of
\* the top bar (476), "Back to the rooms" of the profile (590), the View
\* button of a listed room of the rooms page (792), the back button of the
\* room page (469, drawn before line 476).  request is what GET /rooms
\* meets.
click(button, room_id, request) ==
    /\ UNCHANGED <<rooms, room_settings, next_room_id, influx, clock, clock_us, locations, room_detail, creating, server_tz, resp,
                   weather, query_params, startup, imports, write_queue>>
    /\ CASE button = "profile" ->
                /\ page \in {"page_rooms", "page_room_detail"}
                /\ topbar_drawn
                /\ session' = [session EXCEPT !.show_user_profile = TRUE]
         [] button = "back_to_rooms" ->
                /\ page = "page_user_profile"
                /\ session' = [session EXCEPT !.show_user_profile = FALSE]
         [] button = "room" ->
                /\ page = "page_rooms"
                /\ topbar_drawn
                /\ room_id \in get_rooms(request)
                /\ session' = [session EXCEPT !.current_room = room_id]
         [] button = "back" ->
                /\ page = "page_room_detail"
                /\ session' = [session EXCEPT !.current_room = 0]

\* The Save Location button of the profile page (681) with coordinates
\* that lie in zone: update_user_location (418-439).  put, me and timezone
\* are what PUT /me/location, GET /me and GET /timezone meet.  The PUT
\* writes the users table (main.py 270-280); a request that fails ends
\* the function in its except clause (438-439), with what was done before
\* left as it is.  No other request writes the users table meanwhile.
update_user_location(zone, put, me, timezone) ==
    LET saved == [locations EXCEPT ![session.token] = zone]
    IN  /\ page = "page_user_profile"
        /\ UNCHANGED <<rooms, room_settings, next_room_id, influx, clock, clock_us,
                       room_detail, creating, server_tz, resp, weather, query_params,
                       startup, imports, write_queue>>
        /\ IF put # "ok"
           THEN UNCHANGED <<locations, session>>
           ELSE /\ locations' = saved
                /\ IF me # "ok"
                   THEN UNCHANGED session
                   ELSE session' = [session EXCEPT
                            !.user = session.token,
                            !.user_timezone =
                                get_user_timezone(saved, session.token, timezone)]

\* The Logout button: of the top bar (480, below line 476) on the rooms
\* and room pages, of the profile page (595).
click_logout ==
    /\ \/ page \in {"page_rooms", "page_room_detail"} /\ topbar_drawn
       \/ page = "page_user_profile"
    /\ logout

-----------------------------------------------------------------------------
(* The start of the API: wait_for_mysql, sql.py 14-24                      *)

DefaultRetries == 10   \* sql.py:14  retries=10
DefaultDelay == 3      \* sql.py:14  delay=3

\* wait_for_mysql(retries, delay) is called: the for loop is entered, or
\* with range(retries) empty the raise after it is reached at once.
call_wait_for_mysql(retries, delay) ==
    /\ startup.pc = "idle"
    /\ startup' = [pc |-> IF retries > 0 THEN "connect" ELSE "raised",
                   retries |-> retries, delay |-> delay, i |-> 0, attempts |-> 0]
    /\ UNCHANGED <<rooms, room_settings, next_room_id, influx, clock, clock_us, locations, room_detail, creating, server_tz, resp,
                   weather, session, query_params, write_queue, imports>>

\* after_attempts with the loop running one pass more.
after_attempts_one_more(i, retries) == IF i <= retries THEN "connect" ELSE "raised"

\* Where the loop stands after pass i (0-based) has slept: at the next
\* pass, or past the loop at the raise.
after_attempts(i, retries) == IF i + 1 < retries THEN "connect" ELSE "raised"

\* conn = db._connect(); conn.close(); return True -- or the except clause
\* when the connection fails with a mysql.connector.Error.
connect(ok) ==
    /\ startup.pc = "connect"
    /\ startup' = [startup EXCEPT !.attempts = @ + 1,
                                   !.pc = IF ok THEN "returned" ELSE "sleep"]
    /\ UNCHANGED <<rooms, room_settings, next_room_id, influx, clock, clock_us, locations, room_detail, creating, server_tz, resp,
                   weather, session, query_params, write_queue, imports>>

\* time.sleep(delay) at the end of a failed pass.
sleep_delay ==
    /\ startup.pc = "sleep"
    /\ clock' = clock + startup.delay
    /\ startup' = [startup EXCEPT !.i = @ + 1,
                                   !.pc = after_attempts(startup.i, startup.retries)]
    /\ UNCHANGED <<rooms, room_settings, next_room_id, influx, clock_us, locations, room_detail, creating, server_tz, resp,
                   weather, session, query_params, write_queue, imports>>

-----------------------------------------------------------------------------
(* The import of the test data: test_import.py 26-136, main.py 184-194     *)

\* A line of temperatures.csv: room, temperature in whole degrees
\* Fahrenheit, time as a naive datetime.
CsvRow(room, fahrenheit, time) == [room |-> room, fahrenheit |-> fahrenheit, time |-> time]

\* (fahrenheit - 32) * 5 / 9 degrees Celsius.  A degree is Tenths(10), 90
\* units, so that the division by 9 leaves no rest: 70 F is 190/9 degrees,
\* 1900 units.
fahrenheit_to_celsius(fahrenheit) == ((fahrenheit - 32) * 5 * Tenths(10)) \div 9

\* df.iloc[::10]: the first line and every tenth after it.
every_tenth(rows) ==
    [i \in 1..((Len(rows) + 9) \div 10) |-> rows[10 * (i - 1) + 1]]

\* df['time'].max()
max_time(rows) ==
    CHOOSE m \in {rows[i].time : i \in DOMAIN rows} :
        \A i \in DOMAIN rows : rows[i].time <= m

\* datetime.now().replace(hour=23, minute=59, second=59) - timedelta(days=1)
yesterday(now) == (now \div SecondsPerDay) * SecondsPerDay - 1

\* df['room'].unique(): the names in the order they first appear.
unique(names) ==
    LET at == [i \in DOMAIN names |-> [i |-> i, name |-> names[i]]]
        firsts == SelectSeq(at, LAMBDA c : \A j \in 1..(c.i - 1) : names[j] # c.name)
    IN  [r \in DOMAIN firsts |-> firsts[r].name]

\* has_rooms without the check.
has_rooms_unchecked(user_id) == FALSE

\* existing_rooms and len(existing_rooms) > 0
has_rooms(user_id) == \E row \in rooms : row.user_id = user_id

\* The lines of the file the import works on: df after iloc[::10], and
\* its split into the lines of Room 4 and the others.
room_4_data(df) == SelectSeq(df, LAMBDA row : row.room = "Room 4")
room_data(df) == SelectSeq(df, LAMBDA row : row.room # "Room 4")
unique_rooms(df) == unique([i \in DOMAIN room_data(df) |-> room_data(df)[i].room])

\* The answer of POST /import_testdata.
import_answer(user_id, status, detail) ==
    Response("import_testdata", user_id, 0, status, detail)

\* The statement an import runs after it has dealt with n rooms of its
\* file: the INSERT of the next room, or the writes to the write client.
after_room(rows, n) == IF n < Len(unique_rooms(rows)) THEN "insert_room" ELSE "write"

\* POST /import_testdata at instant (t, us), run by a free thread of the pool, up
\* to the first INSERT: the SELECT of the user's rooms and the return when
\* there is one (31-38), the test of the file (41-42), the reading and
\* shifting of its lines (43-61).  csv is the file at CSV_PATH: whether it
\* exists, and its lines.
import_csv_if_needed(thread, user_id, csv, t, us) ==
    /\ imports[thread].pc = "idle"
    /\ clock' = t
    /\ clock_us' = us
    /\ UNCHANGED <<rooms, room_settings, next_room_id, influx, locations, room_detail, creating, server_tz, weather,
                   session, query_params, startup, write_queue>>
    /\ IF has_rooms(user_id)
       THEN /\ UNCHANGED imports
            /\ resp' = import_answer(user_id, 200, "Testdaten erfolgreich importiert")
       ELSE IF ~csv.exists
       THEN /\ UNCHANGED imports
            /\ resp' = import_answer(user_id, 404, "CSV-Datei nicht gefunden")
       ELSE /\ imports' = [imports EXCEPT ![thread] =
                    [pc |-> after_room(every_tenth(csv.rows), 0), user_id |-> user_id,
                     rows |-> every_tenth(csv.rows), now |-> NowAt(t),
                     room_mapping |-> <<>>, points |-> <<>>]]
            /\ resp' = NoResponse

\* INSERT INTO rooms (user_id, name) for the next name of unique_rooms
\* (68-72).  The unique key (user_id, name) of sql.py 50 makes it raise when
\* the user has a room of that name by now; the exception ends the import
\* with 500 (main.py 192-193).
import_insert_room(thread) ==
    LET import == imports[thread]
        name == unique_rooms(import.rows)[Len(import.room_mapping) + 1]
        duplicate == \E row \in rooms : row.user_id = import.user_id /\ row.name = name
    IN  /\ import.pc = "insert_room"
        /\ UNCHANGED <<room_settings, influx, clock, clock_us, locations, room_detail, creating, server_tz, weather,
                       session, query_params, startup, write_queue>>
        /\ IF duplicate
           THEN /\ UNCHANGED <<rooms, next_room_id>>
                /\ imports' = [imports EXCEPT ![thread] = NotImporting]
                /\ resp' = import_answer(import.user_id, 500, "Import fehlgeschlagen")
           ELSE /\ rooms' = rooms \cup
                        {[id |-> next_room_id, user_id |-> import.user_id, name |-> name]}
                /\ next_room_id' = next_room_id + 1
                /\ imports' = [imports EXCEPT ![thread].pc = "select_id"]
                /\ resp' = NoResponse

\* SELECT id FROM rooms WHERE user_id = %s AND name = %s and
\* room_result[0]['id'] (74-80): an IndexError when the room is gone.
import_select_id(thread) ==
    LET import == imports[thread]
        name == unique_rooms(import.rows)[Len(import.room_mapping) + 1]
        room_result == {row \in rooms : row.user_id = import.user_id /\ row.name = name}
    IN  /\ import.pc = "select_id"
        /\ UNCHANGED <<rooms, room_settings, next_room_id, influx, clock, clock_us, locations, room_detail, creating, server_tz,
                       weather, session, query_params, startup, write_queue>>
        /\ IF room_result = {}
           THEN /\ imports' = [imports EXCEPT ![thread] = NotImporting]
                /\ resp' = import_answer(import.user_id, 500, "Import fehlgeschlagen")
           ELSE /\ imports' = [imports EXCEPT
                        ![thread].room_mapping =
                            Append(@, (CHOOSE row \in room_result : TRUE).id),
                        ![thread].pc = "insert_settings"]
                /\ resp' = NoResponse

\* INSERT INTO room_settings ... for the room just created (82-90).  The
\* foreign key on rooms(id) makes it raise when the room is gone; fails
\* tells whether the query raises for another reason.
import_insert_settings(thread, fails) ==
    LET import == imports[thread]
        n == Len(import.room_mapping)
        room_id == import.room_mapping[n]
    IN  /\ import.pc = "insert_settings"
        /\ UNCHANGED <<rooms, next_room_id, influx, clock, clock_us, locations, room_detail, creating, server_tz, weather,
                       session, query_params, startup, write_queue>>
        /\ IF \/ fails
              \/ ~\E row \in rooms : row.id = room_id
           THEN /\ UNCHANGED room_settings
                /\ imports' = [imports EXCEPT ![thread] = NotImporting]
                /\ resp' = import_answer(import.user_id, 500, "Import fehlgeschlagen")
           ELSE /\ room_settings' = room_settings \cup
                        {default_settings(import.user_id, room_id)}
                /\ imports' = [imports EXCEPT ![thread].pc = after_room(import.rows, n)]
                /\ resp' = NoResponse

ImportBatchSize == 500    \* test_import.py:96  WriteOptions(batch_size=500)

\* The writes of the points of the rooms and of the weather points to the
\* import's own write client (95-133).  The client batches: write hands the
\* points over and returns, the points of the rooms before the weather
\* points; nothing has reached the bucket yet and the request is not
\* answered.
import_write_points(thread) ==
    LET import == imports[thread]
        offset == yesterday(import.now) - max_time(import.rows)
        names == unique_rooms(import.rows)
        room_id(name) ==
            import.room_mapping[CHOOSE r \in DOMAIN names : names[r] = name]
        room_rows == room_data(import.rows)
        weather_rows == room_4_data(import.rows)
        points == [i \in DOMAIN room_rows |->
                    temperature_point(import.user_id, room_id(room_rows[i].room),
                        fahrenheit_to_celsius(room_rows[i].fahrenheit),
                        room_rows[i].time + offset, 0)]
        weather_points == [i \in DOMAIN weather_rows |->
                    weather_point(import.user_id,
                        fahrenheit_to_celsius(weather_rows[i].fahrenheit),
                        weather_rows[i].time + offset, 0)]
    IN  /\ import.pc = "write"
        /\ UNCHANGED <<rooms, room_settings, next_room_id, influx, clock, clock_us, locations, room_detail, creating, server_tz, weather,
                       session, query_params, startup, write_queue>>
        /\ imports' = [imports EXCEPT ![thread].points = points \o weather_points,
                                      ![thread].pc = "close"]
        /\ resp' = NoResponse

\* One delivery of the import's write client: the oldest n points it holds
\* go to the bucket in one request, made by the client's own thread while
\* the import waits and the API serves other requests.  A batch is closed
\* at batch_size points or when the client's flush interval ends, so it
\* holds at most batch_size points.  A delivery that fails is not reported
\* to the import and its points are dropped.
import_deliver_batch(thread, n, fails) ==
    LET import == imports[thread]
    IN  /\ import.pc = "close"
        /\ n \in 1..Len(import.points)
        /\ n <= ImportBatchSize
        /\ UNCHANGED <<rooms, room_settings, next_room_id, clock, clock_us, locations, room_detail, creating, server_tz, weather,
                       session, query_params, startup, write_queue>>
        /\ influx' = IF fails THEN influx
                     ELSE store_each(influx, SubSeq(import.points, 1, n))
        /\ imports' = [imports EXCEPT ![thread].points =
                                            SubSeq(@, n + 1, Len(@))]
        /\ resp' = NoResponse

\* write_api.close() (135) returns when the client holds no point any more;
\* the import ends and the request is answered 200 (main.py 189-191).
import_close(thread) ==
    LET import == imports[thread]
    IN  /\ import.pc = "close"
        /\ import.points = <<>>
        /\ UNCHANGED <<rooms, room_settings, next_room_id, influx, clock, clock_us, locations, room_detail, creating, server_tz, weather,
                       session, query_params, startup, write_queue>>
        /\ imports' = [imports EXCEPT ![thread] = NotImporting]
        /\ resp' = [import_answer(import.user_id, 200, "Testdaten erfolgreich importiert")
                        EXCEPT !.count = Len(import.rows)]

-----------------------------------------------------------------------------
(* The API under requests of two users *)

\* The instants at which requests arrive.
Instants ==
    {StartClock,
     StartClock + LookbackDays * SecondsPerDay,
     StartClock + LookbackDays * SecondsPerDay + 12 * SecondsPerHour}
Later(t) == {t2 \in Instants : t2 >= t}

\* The microseconds, of the seconds above, at which requests arrive.
Micros == {0, 1}

\* The microseconds between two successive readings of datetime.now() in
\* one loop: none (both readings show the same microsecond) or one.
Ticks == {0, 1}

\* A step that reads the clock at (t, us) comes after the step before it.
after_clock(t, us) == earlier(clock, clock_us, t, us)

Faults == {"none", "insert_room", "insert_settings"}

BatchTemperatures == {<<>>, <<Tenths(180), Tenths(210)>>}
BatchTimestamps ==
    {None, Some(<<"yesterday", "1970-01-12T12:00:00Z">>),
     Some(<<"1970-01-12T12:00:00Z", Null>>)}

CreateRoom ==
    \E u \in Users, name \in RoomNames, fault \in Faults :
        create_room(u, name, fault, clock, clock_us)

\* Samples are posted when the write client has delivered the writes of
\* the request before; reads run at any moment.
PostTemperature ==
    \E u \in Users, r \in RoomIds, v \in Temps, t \in Later(clock), us \in Micros :
        /\ write_queue = <<>>
        /\ points_held < MaxPoints
        /\ after_clock(t, us)
        /\ post_temperature(u, r, v, t, us)

\* The clock moves on to the start of a later second after an entry k of
\* the batch, or not at all (k = Len(temps)).  A batch without values comes
\* without timestamps; the readings of the clock in one batch differ.
PostTemperatureBatch ==
    \E u \in Users, r \in RoomIds, temps \in BatchTemperatures,
       ts \in BatchTimestamps, t \in Later(clock), us \in Micros :
        \E k \in 0..Len(temps), t2 \in Later(t) :
            /\ write_queue = <<>>
            /\ points_held + Len(temps) <= MaxPoints
            /\ after_clock(t, us)
            /\ (t2 > t) # (k = Len(temps))
            /\ temps = <<>> => ts = None
            /\ post_temperature_batch(u, r, temps, ts, t, us, k, t2, 0, 1, {})

\* The reads are those of user 1, on a room of theirs, on the room of the
\* other user and on a room that does not exist.
GetLatestTemperature ==
    \E r \in RoomIds, t \in Later(clock), us \in Micros :
        /\ after_clock(t, us)
        /\ get_latest_temperature(1, r, t, us)

\* The query of a decision is answered in the microsecond the handler read
\* the clock, later in that second, or at the start of a later second.
GetHeatingStatus ==
    \E r \in RoomIds, t \in Later(clock), us \in Micros :
        \E t2 \in Later(t), us2 \in Micros :
            /\ after_clock(t, us)
            /\ t2 > t => us2 = 0
            /\ get_heating_status(1, r, t, us, t2, us2)

Next ==
    \/ CreateRoom
    \/ PostTemperature
    \/ PostTemperatureBatch
    \/ GetLatestTemperature
    \/ GetHeatingStatus
    \/ flush_write

Spec == Init /\ [][Next]_vars

-----------------------------------------------------------------------------
(* Schedules and times of day: one room, its schedule edited at will, the  *)
(* decision asked for around every boundary of the night window.           *)

\* The room of user 1 after create_room and one post_temperature.
InitTarget ==
    /\ rooms = {[id |-> 1, user_id |-> 1, name |-> "Kitchen"]}
    /\ room_settings = {default_settings(1, 1)}
    /\ next_room_id = 2
    /\ server_tz \in Zones
    /\ \E v \in Temps :
        influx = <<temperature_point(1, 1, v, StartClock + UtcOffset(server_tz), 0)>>
    /\ clock = StartClock
    /\ clock_us = 0
    /\ resp = NoResponse
    /\ session = SessionManager
    /\ query_params = NoToken
    /\ startup = NotCalled
    /\ write_queue = <<>>
    /\ imports = NoImports
    /\ locations = Registered
    /\ room_detail = NotShown
    /\ creating = NotCreating
    /\ weather = WeatherStarted

HMS(h, m, s) == h * SecondsPerHour + m * SecondsPerMinute + s

\* night_start / night_end values of the edited schedules.
Boundaries == {HMS(6, 0, 0), HMS(22, 0, 0), HMS(7, 30, 15)}

\* Wall-clock readings around the boundaries, and a few between them.
LocalTimes ==
    UNION {{b - 1, b, b + 1} : b \in Boundaries}
    \cup {HMS(0, 0, 0), HMS(7, 0, 0), HMS(12, 0, 0), HMS(23, 30, 0), HMS(23, 59, 59)}

\* The instants of 1970-01-14 at which some zone's wall clock reads a LocalTime.
TargetInstants ==
    {13 * SecondsPerDay + l - UtcOffset(z) : l \in LocalTimes, z \in Zones}

Schedules ==
    [timezone : Zones, wanted_temp_day : {Tenths(210)}, wanted_temp_night : {Tenths(180)},
     night_start : Boundaries, night_end : Boundaries]

\* The schedule is edited at the instant of the step before.
UpdateSchedule ==
    \E s \in Schedules :
        update_room_settings(1, 1, s, clock, clock_us)

\* The decision reads the clock after the step before it, and its query
\* reaches the bucket in the same microsecond or a second later.
DecideAt ==
    \E t \in {t2 \in TargetInstants : t2 >= clock}, us \in Micros, lag \in {0, 1} :
        /\ after_clock(t, us)
        /\ get_heating_status(1, 1, t, us, t + lag, us)

NextTarget == UpdateSchedule \/ DecideAt

SpecTarget == InitTarget /\ [][NextTarget]_vars

-----------------------------------------------------------------------------
(* The room page of the dashboard, run after run, while the schedule of    *)
(* the room is edited and the decision is asked for: by the page, which    *)
(* asks for it (col3) after it has shown the wanted temperature, and by    *)
(* other clients at any moment.                                            *)

InitPage ==
    /\ rooms = {[id |-> 1, user_id |-> 1, name |-> "Kitchen"]}
    /\ room_settings = {default_settings(1, 1)}
    /\ next_room_id = 2
    /\ server_tz \in ServerZones
    /\ influx = <<temperature_point(1, 1, Tenths(180), StartClock + UtcOffset(server_tz), 0)>>
    /\ clock = StartClock
    /\ clock_us = 0
    /\ resp = NoResponse
    /\ session = SessionManager
    /\ query_params = NoToken
    /\ startup = NotCalled
    /\ write_queue = <<>>
    /\ imports = NoImports
    /\ locations = Registered
    /\ room_detail = NotShown
    /\ creating = NotCreating
    /\ weather = WeatherStarted

\* The schedules of the default zone and temperatures.
PageSchedules ==
    {s \in Schedules : s.timezone = "Europe/Berlin"}

\* The instants of 1970-01-14 at which the wall clock of the server reads
\* midnight, a boundary or the second before it.
PageInstants ==
    {13 * SecondsPerDay + l - UtcOffset(server_tz) :
        l \in {HMS(0, 0, 0)} \cup UNION {{b - 1, b} : b \in Boundaries}}
PageLater(t) == {t2 \in PageInstants : t2 >= t}

PageUpdateSchedule ==
    \E s \in PageSchedules :
        update_room_settings(1, 1, s, clock, clock_us)

PageGetRoomSettings ==
    \E request \in {"ok", "unreachable"} :
        page_get_room_settings(1, 1, request)

PageGetLatestTemperature ==
    \/ \E t \in PageLater(clock), us \in Micros :
            /\ after_clock(t, us)
            /\ page_get_latest_temperature(t, us, "ok")
    \/ \E request \in {"http_error", "unreachable"} :
            page_get_latest_temperature(clock, clock_us, request)

PageGetCurrentTargetTemp ==
    \E t \in PageLater(clock), us \in Micros :
        /\ after_clock(t, us)
        /\ page_get_current_target_temp(t, us)

PageGetHeatingStatus ==
    \E t \in PageLater(clock), us \in Micros :
        /\ after_clock(t, us)
        /\ get_heating_status(1, 1, t, us, t, us)

NextPage ==
    \/ PageUpdateSchedule
    \/ PageGetRoomSettings
    \/ PageGetLatestTemperature
    \/ PageGetCurrentTargetTemp
    \/ PageGetHeatingStatus

SpecPage == InitPage /\ [][NextPage]_vars

-----------------------------------------------------------------------------
(* The batch limit: batches around the limit of 100 into an empty bucket.  *)

InitBatch ==
    /\ rooms = {[id |-> 1, user_id |-> 1, name |-> "Kitchen"]}
    /\ room_settings = {default_settings(1, 1)}
    /\ next_room_id = 2
    /\ server_tz \in Zones
    /\ influx = <<>>
    /\ clock = StartClock
    /\ clock_us = NotYet
    /\ resp = NoResponse
    /\ session = SessionManager
    /\ query_params = NoToken
    /\ startup = NotCalled
    /\ write_queue = <<>>
    /\ imports = NoImports
    /\ locations = Registered
    /\ room_detail = NotShown
    /\ creating = NotCreating
    /\ weather = WeatherStarted

Repeat(v, n) == [i \in 1..n |-> v]

LimitBatches == {Repeat(v, n) : v \in Temps, n \in {MaxBatch - 1, MaxBatch, MaxBatch + 1}}

\* The requests arrive when the client's queue is empty.  The clock moves
\* on before the first entry, after it, before the last, or not at all.
PostLimitBatch ==
    \E u \in Users, temps \in LimitBatches, t \in Later(clock), us \in Micros :
        \E k \in {0, 1, Len(temps) - 1, Len(temps)}, t2 \in Later(t), tick \in Ticks :
            /\ write_queue = <<>>
            /\ influx = <<>> \/ Len(temps) > MaxBatch
            /\ after_clock(t, us)
            /\ (t2 > t) # (k = Len(temps))
            /\ post_temperature_batch(u, 1, temps, None, t, us, k, t2, 0, tick, {})

\* The same batches for room 2, which does not exist.
PostLimitElsewhere ==
    \E u \in Users, temps \in LimitBatches, t \in Later(clock), us \in Micros :
        /\ write_queue = <<>>
        /\ after_clock(t, us)
        /\ post_temperature_batch(u, 2, temps, None, t, us, Len(temps), t, 0, 1, {})

\* A single sample for either room.
PostLimitOne ==
    \E u \in Users, r \in RoomIds, v \in Temps, t \in Later(clock), us \in Micros :
        /\ points_held = 0
        /\ after_clock(t, us)
        /\ post_temperature(u, r, v, t, us)

NextBatch == PostLimitBatch \/ PostLimitElsewhere \/ PostLimitOne \/ flush_write

SpecBatch == InitBatch /\ [][NextBatch]_vars

-----------------------------------------------------------------------------
(* Batches with timestamps of every kind into one room, over a store whose *)
(* writes may fail.                                                        *)

InitIngest ==
    /\ rooms = {[id |-> 1, user_id |-> 1, name |-> "Kitchen"]}
    /\ room_settings = {default_settings(1, 1)}
    /\ next_room_id = 2
    /\ server_tz \in Zones
    /\ influx = <<>>
    /\ clock = StartClock
    /\ clock_us = NotYet
    /\ resp = NoResponse
    /\ session = SessionManager
    /\ query_params = NoToken
    /\ startup = NotCalled
    /\ write_queue = <<>>
    /\ imports = NoImports
    /\ locations = Registered
    /\ room_detail = NotShown
    /\ creating = NotCreating
    /\ weather = WeatherStarted

IngestTemperatures ==
    {<<Tenths(180)>>, <<Tenths(180), Tenths(210)>>,
     <<Tenths(210), Tenths(180), Tenths(210)>>}

\* Absent, shorter than the values, unparseable entries, offsets, naive,
\* and a list with a null among its entries.
IngestTimestamps ==
    {None,
     Some(<<"1970-01-12T14:00:00+02:00">>),
     Some(<<"yesterday", "1970-01-12T12:00:00Z">>),
     Some(<<"1970-01-12T12:00:00", "yesterday", "1970-01-12T12:00:00Z">>),
     Some(<<"1970-01-12T12:00:00Z", Null, "1970-01-12T12:00:00Z">>)}

\* The instants at which requests arrive: 1970-01-11T12:00, 30 hours later,
\* a week later.
IngestInstants ==
    {StartClock, StartClock + 30 * SecondsPerHour, StartClock + LookbackDays * SecondsPerDay}
IngestLater(t) == {t2 \in IngestInstants : t2 >= t}

\* No write of the batch fails, the first does, or all do; the readings of
\* the clock in one batch differ.
IngestBatch ==
    \E temps \in IngestTemperatures, ts \in IngestTimestamps, t \in IngestLater(clock),
       us \in Micros :
        \E k \in 0..Len(temps), t2 \in IngestLater(t),
           lost \in {{}, {1}, 1..Len(temps)} :
            /\ points_held < MaxPoints
            /\ after_clock(t, us)
            /\ (t2 > t) # (k = Len(temps))
            /\ post_temperature_batch(1, 1, temps, ts, t, us, k, t2, 0, 1, lost)

NextIngest == IngestBatch \/ flush_write

SpecIngest == InitIngest /\ [][NextIngest]_vars

-----------------------------------------------------------------------------
(* Batches without timestamps into one room, into an empty bucket and into *)
(* one that holds samples, while writes handed over earlier wait in the    *)
(* write client, over a store whose writes may fail.                       *)

\* Every set of writes of the batch can fail; two readings of the clock in
\* one batch differ or show the same microsecond.
NowBatch ==
    \E temps \in IngestTemperatures, t \in IngestLater(clock), us \in Micros :
        \E k \in 0..Len(temps), t2 \in IngestLater(t), tick \in Ticks,
           lost \in SUBSET (1..Len(temps)) :
            /\ points_held < MaxPoints
            /\ after_clock(t, us)
            /\ (t2 > t) # (k = Len(temps))
            /\ post_temperature_batch(1, 1, temps, None, t, us, k, t2, 0, tick, lost)

NextNow == NowBatch \/ flush_write

SpecNow == InitIngest /\ [][NextNow]_vars

-----------------------------------------------------------------------------
(* Samples written one by one and in batches, and range requests with and *)
(* without start and end, over a store that is reachable.                  *)

\* start / end of the range requests: omitted, 1970-01-11T00:00Z,
\* 1970-01-12T12:00Z.
RangeArgs ==
    {Omitted, At(StartClock - 12 * SecondsPerHour), At(StartClock + 24 * SecondsPerHour)}

InitRange ==
    /\ rooms = {[id |-> 1, user_id |-> 1, name |-> "Kitchen"]}
    /\ room_settings = {default_settings(1, 1)}
    /\ next_room_id = 2
    /\ server_tz \in ServerZones
    /\ influx = <<>>
    /\ clock = StartClock
    /\ clock_us = NotYet
    /\ resp = NoResponse
    /\ session = SessionManager
    /\ query_params = NoToken
    /\ startup = NotCalled
    /\ write_queue = <<>>
    /\ imports = NoImports
    /\ locations = Registered
    /\ room_detail = NotShown
    /\ creating = NotCreating
    /\ weather = WeatherStarted

RangeTimestamps ==
    {None, Some(<<"yesterday", "1970-01-12T12:00:00Z">>),
     Some(<<"1970-01-12T12:00:00Z", "1970-01-12T12:00:00Z">>)}

PostOne ==
    \E v \in Temps, t \in IngestLater(clock), us \in Micros :
        /\ points_held < MaxPoints
        /\ after_clock(t, us)
        /\ post_temperature(1, 1, v, t, us)

PostPair ==
    \E ts \in RangeTimestamps, t \in IngestLater(clock), us \in Micros, k \in {0, 1, 2} :
        \E t2 \in IngestLater(t), tick \in Ticks :
            /\ points_held < MaxPoints
            /\ after_clock(t, us)
            /\ (t2 > t) # (k = 2)
            /\ post_temperature_batch(1, 1, <<Tenths(180), Tenths(210)>>, ts, t, us, k, t2, 0,
                                      tick, {})

QueryRange ==
    \E u \in Users, start \in RangeArgs, end \in RangeArgs, t \in IngestLater(clock),
       us \in Micros :
        /\ after_clock(t, us)
        /\ get_room_temperatures(u, 1, start, end, t, us)

\* The weather task over the locations of the two users, the second one
\* reachable or not.
RangeWeatherCycle ==
    \E outcomes \in {<<"ok", "ok">>, <<"ok", "timeout">>}, t \in IngestLater(clock),
       us \in Micros :
        /\ points_held < MaxPoints
        /\ after_clock(t, us)
        /\ fetch_and_store_weather_data("ok", <<1, 2>>, outcomes, t, us, 2, t, 0, 1)

RangeWeatherSleep == weather_sleep(sleep_ends.time, sleep_ends.us)

QueryWeather ==
    \E u \in Users, start \in RangeArgs, end \in RangeArgs, t \in IngestLater(clock),
       us \in Micros :
        /\ after_clock(t, us)
        /\ get_weather_temperatures(u, start, end, t, us)

NextRange ==
    \/ PostOne
    \/ PostPair
    \/ QueryRange
    \/ RangeWeatherCycle
    \/ RangeWeatherSleep
    \/ QueryWeather
    \/ flush_write

SpecRange == InitRange /\ [][NextRange]_vars

-----------------------------------------------------------------------------
(* Rooms created and deleted, with samples stamped now or ahead of now, and *)
(* with the SQL and bucket calls of the two handlers failing or not.       *)

DeleteFaults == {"none", "delete_api", "delete_rooms"}

\* A sample stamped now, or stamped 1970-01-12T12:00Z.
RoomsTimestamps == {None, Some(<<"1970-01-12T12:00:00Z">>)}

RoomsCreate ==
    \E u \in Users, name \in RoomNames, fault \in Faults, t \in Later(clock) :
        /\ next_room_id \in RoomIds
        /\ create_room(u, name, fault, t, IF t = clock THEN clock_us ELSE 0)

RoomsDelete ==
    \E u \in Users, r \in RoomIds, fault \in DeleteFaults, t \in Later(clock),
       us \in Micros :
        /\ after_clock(t, us)
        /\ delete_room(u, r, fault, t, us)

RoomsPost ==
    \E u \in Users, r \in RoomIds, v \in Temps, ts \in RoomsTimestamps, t \in Later(clock),
       us \in Micros :
        /\ points_held < MaxPoints
        /\ after_clock(t, us)
        /\ post_temperature_batch(u, r, <<v>>, ts, t, us, 1, t, 0, 1, {})

NextRooms == RoomsCreate \/ RoomsDelete \/ RoomsPost \/ flush_write

SpecRooms == Init /\ [][NextRooms]_vars

-----------------------------------------------------------------------------
(* Deletions among the rooms of two owners, the first owning two rooms,    *)
(* with samples of every series and weather samples in the bucket.         *)

\* The series of the rooms: (owner, room).
DeleteSeries == {<<1, 1>>, <<1, 2>>, <<2, 3>>}

\* The tables after create_room by user 1 (twice) and by user 2; the bucket
\* after one post_temperature for each room and one weather cycle over the
\* locations of the two users, all an hour before the first request.
InitDelete ==
    /\ rooms = {[id |-> 1, user_id |-> 1, name |-> "Kitchen"],
                [id |-> 2, user_id |-> 1, name |-> "Bath"],
                [id |-> 3, user_id |-> 2, name |-> "Kitchen"]}
    /\ room_settings = {default_settings(1, 1), default_settings(1, 2),
                        default_settings(2, 3)}
    /\ next_room_id = 4
    /\ server_tz \in ServerZones
    /\ LET at == StartClock - SecondsPerHour + UtcOffset(server_tz)
       IN  influx = <<temperature_point(1, 1, Tenths(210), at, 0),
                      temperature_point(1, 2, Tenths(210), at, 1),
                      temperature_point(2, 3, Tenths(210), at, 2),
                      weather_point(1, Tenths(75), at, 3),
                      weather_point(2, Tenths(75), at, 4)>>
    /\ clock = StartClock
    /\ clock_us = NotYet
    /\ resp = NoResponse
    /\ session = SessionManager
    /\ query_params = NoToken
    /\ startup = NotCalled
    /\ write_queue = <<>>
    /\ imports = NoImports
    /\ locations = Registered
    /\ room_detail = NotShown
    /\ creating = NotCreating
    /\ weather = [pc |-> "sleep", load |-> "ok", users |-> <<1, 2>>,
                  outcomes |-> <<"ok", "ok">>,
                  wake |-> StartClock - SecondsPerHour + SleepSeconds, wake_us |-> 4]

DeleteRoomIds == {1, 2, 3}

\* The instants at which requests arrive.
DeleteInstants == {StartClock, StartClock + SleepSeconds}
DeleteLater(t) == {t2 \in DeleteInstants : t2 >= t}

\* MaxPoints more samples are posted, to rooms that exist or are gone.
DeletePost ==
    \E series \in DeleteSeries, t \in DeleteLater(clock), us \in Micros :
        /\ points_of(Tenths(180)) < MaxPoints
        /\ after_clock(t, us)
        /\ post_temperature(series[1], series[2], Tenths(180), t, us)

DeleteRoom ==
    \E u \in Users, r \in DeleteRoomIds, fault \in DeleteFaults, t \in DeleteLater(clock),
       us \in Micros :
        /\ after_clock(t, us)
        /\ delete_room(u, r, fault, t, us)

NextDelete == DeletePost \/ DeleteRoom \/ flush_write

SpecDelete == InitDelete /\ [][NextDelete]_vars

-----------------------------------------------------------------------------
(* Ingestion and decisions interleaved over three series: two rooms of one *)
(* owner and a room of another.                                            *)

InitSeries ==
    /\ rooms = {[id |-> 1, user_id |-> 1, name |-> "Kitchen"],
                [id |-> 2, user_id |-> 1, name |-> "Bath"],
                [id |-> 3, user_id |-> 2, name |-> "Kitchen"]}
    /\ room_settings = {default_settings(1, 1), default_settings(1, 2),
                        default_settings(2, 3)}
    /\ next_room_id = 4
    /\ server_tz \in ServerZones
    /\ influx = <<>>
    /\ clock = StartClock
    /\ clock_us = NotYet
    /\ resp = NoResponse
    /\ session = SessionManager
    /\ query_params = NoToken
    /\ startup = NotCalled
    /\ write_queue = <<>>
    /\ imports = NoImports
    /\ locations = Registered
    /\ room_detail = NotShown
    /\ creating = NotCreating
    /\ weather = WeatherStarted

SeriesPost ==
    \E series \in DeleteSeries, v \in Temps, t \in Later(clock), us \in Micros :
        /\ points_held < MaxPoints
        /\ after_clock(t, us)
        /\ post_temperature(series[1], series[2], v, t, us)

SeriesPostBatch ==
    \E series \in DeleteSeries, v \in Temps, ts \in RoomsTimestamps, t \in Later(clock),
       us \in Micros :
        /\ points_held < MaxPoints
        /\ after_clock(t, us)
        /\ post_temperature_batch(series[1], series[2], <<v>>, ts, t, us, 1, t, 0, 1, {})

SeriesDecide ==
    \E u \in Users, r \in DeleteRoomIds, t \in Later(clock), us \in Micros :
        \E t2 \in Later(t), us2 \in Micros :
            /\ after_clock(t, us)
            /\ get_heating_status(u, r, t, us, t2, us2)

NextSeries == SeriesPost \/ SeriesPostBatch \/ SeriesDecide \/ flush_write

SpecSeries == InitSeries /\ [][NextSeries]_vars

-----------------------------------------------------------------------------
(* Imports of the test data by two users, who also create rooms and post   *)
(* samples themselves.                                                     *)

\* 1970-01-01T00:00:00 plus i - 1 times ten minutes: the time of line i.
CsvTime(i) == (i - 1) * 10 * SecondsPerMinute

\* Files of 21 lines, of which the import takes lines 1, 11 and 21: two
\* rooms and the weather room.
CsvThreeRooms ==
    [i \in 1..21 |->
        CsvRow(IF i <= 10 THEN "Room 1" ELSE IF i <= 20 THEN "Room 4" ELSE "Room 2",
               IF i <= 10 THEN 70 ELSE IF i <= 20 THEN 50 ELSE 59,
               CsvTime(i))]

CsvFiles ==
    {[exists |-> TRUE, rows |-> CsvThreeRooms], [exists |-> FALSE, rows |-> <<>>]}

\* The tables and the bucket empty, the API process in Europe/Berlin (the
\* import reads the clock for the date only).
InitImport ==
    /\ rooms = {}
    /\ room_settings = {}
    /\ next_room_id = 1
    /\ influx = <<>>
    /\ clock = StartClock
    /\ clock_us = NotYet
    /\ server_tz = "Europe/Berlin"
    /\ resp = NoResponse
    /\ session = SessionManager
    /\ query_params = NoToken
    /\ startup = NotCalled
    /\ write_queue = <<>>
    /\ imports = NoImports
    /\ locations = Registered
    /\ room_detail = NotShown
    /\ creating = NotCreating
    /\ weather = WeatherStarted

\* The instants at which imports are requested.
ImportInstants == {StartClock, StartClock + LookbackDays * SecondsPerDay}

\* The ids the rooms of this specification take.
ImportRoomIds == 1..4

\* A request is taken by the first thread of the pool that is free.
ImportTestdata ==
    \E thread \in ImportThreads, u \in Users, csv \in CsvFiles, t \in ImportInstants,
       us \in Micros :
        /\ creating.pc = "idle"
        /\ after_clock(t, us)
        /\ \A other \in ImportThreads : other < thread => imports[other].pc # "idle"
        /\ import_csv_if_needed(thread, u, csv, t, us)

\* The next statement of an import in progress.
ImportInsertRoom ==
    \E thread \in ImportThreads :
        /\ next_room_id \in ImportRoomIds
        /\ import_insert_room(thread)

ImportSelectId == \E thread \in ImportThreads : import_select_id(thread)

\* The INSERT of the settings can fail for the first room of an import.
ImportInsertSettings ==
    \E thread \in ImportThreads, fails \in BOOLEAN :
        /\ fails => Len(imports[thread].room_mapping) = 1
        /\ import_insert_settings(thread, fails)

ImportWritePoints == \E thread \in ImportThreads : import_write_points(thread)

\* The client delivers all the points it holds in one batch, or all but
\* the last in a first batch and the last in a second; a delivery that
\* takes all the client holds goes through or fails.
ImportDeliverBatch ==
    \E thread \in ImportThreads, fails \in BOOLEAN :
        \E n \in {Len(imports[thread].points) - 1, Len(imports[thread].points)} :
            /\ fails => n = Len(imports[thread].points)
            /\ import_deliver_batch(thread, n, fails)

ImportClose == \E thread \in ImportThreads : import_close(thread)

\* create_room statement by statement, the threads of the imports running
\* in between.
ImportCreateInsert ==
    \E u \in Users, name \in RoomNames :
        /\ next_room_id \in ImportRoomIds
        /\ create_room_insert(u, name)

ImportCreateSelect == create_room_select

ImportCreateInsertSettings == create_room_insert_settings(FALSE)

\* Next to the imported samples, MaxPoints - 1 samples are posted.
ImportPost ==
    \E u \in Users, r \in RoomIds, t \in ImportInstants, us \in Micros :
        /\ creating.pc = "idle"
        /\ write_queue = <<>>
        /\ points_of(Tenths(180)) < MaxPoints - 1
        /\ after_clock(t, us)
        /\ post_temperature(u, r, Tenths(180), t, us)

NextImport ==
    \/ ImportTestdata
    \/ ImportInsertRoom
    \/ ImportSelectId
    \/ ImportInsertSettings
    \/ ImportWritePoints
    \/ ImportDeliverBatch
    \/ ImportClose
    \/ ImportCreateInsert
    \/ ImportCreateSelect
    \/ ImportCreateInsertSettings
    \/ ImportPost
    \/ flush_write

SpecImport == InitImport /\ [][NextImport]_vars

-----------------------------------------------------------------------------
(* The dashboard of one browser: runs of the script, logins of two users,  *)
(* logouts and clicks, with the API answering, refusing or out of reach,   *)
(* and rooms being created meanwhile.                                      *)

\* The tokens that were put into the URL by hand and that the API refuses.
StaleTokens == {9}

InitSession ==
    /\ rooms = {}
    /\ room_settings = {}
    /\ next_room_id = 1
    /\ server_tz \in ServerZones
    /\ influx = <<>>
    /\ clock = StartClock
    /\ clock_us = NotYet
    /\ resp = NoResponse
    /\ weather = WeatherStarted
    /\ session = SessionManager
    /\ query_params \in {NoToken, 1, 2} \cup StaleTokens
    /\ startup = NotCalled
    /\ write_queue = <<>>
    /\ imports = NoImports
    /\ locations = Registered
    /\ room_detail = NotShown
    /\ creating = NotCreating

SessionRun ==
    \E me \in Requests :
        /\ query_params \in StaleTokens => me = "http_error"
        /\ initialize_session(me)

SessionLogin ==
    \E u \in Users, token \in Requests, me \in Requests, timezone \in Requests :
        /\ page = "page_login"
        /\ login_user(u, token, me, timezone)

SessionLogout == click_logout

SessionClick ==
    \E button \in {"profile", "back_to_rooms", "room", "back"}, r \in RoomIds,
       request \in Requests :
        click(button, r, request)

\* The zones of the coordinates a user saves.
SavedZones == {"Europe/Berlin", "America/New_York"}

SessionSaveLocation ==
    \E zone \in SavedZones, put \in Requests, me \in Requests, timezone \in Requests :
        update_user_location(zone, put, me, timezone)

\* Rooms are created through the API while the dashboard is in use.
SessionCreateRoom ==
    \E u \in Users, name \in RoomNames :
        /\ next_room_id \in RoomIds
        /\ create_room(u, name, "none", clock, clock_us)

NextSession ==
    \/ SessionRun
    \/ SessionLogin
    \/ SessionLogout
    \/ SessionClick
    \/ SessionSaveLocation
    \/ SessionCreateRoom

SpecSession == InitSession /\ [][NextSession]_vars

-----------------------------------------------------------------------------
(* wait_for_mysql called with a few numbers of retries, the database       *)
(* coming up at any attempt or not at all.                                 *)

StartupRetries == {0, 1, 2, 3, DefaultRetries}
StartupDelays == {0, DefaultDelay}

StartupCall ==
    \E retries \in StartupRetries, delay \in StartupDelays :
        call_wait_for_mysql(retries, delay)

StartupConnect == \E ok \in BOOLEAN : connect(ok)

StartupSleep == sleep_delay

NextStartup == StartupCall \/ StartupConnect \/ StartupSleep

SpecStartup == Init /\ [][NextStartup]_vars

\* The interpreter runs the function on: a call that can be made is made,
\* an attempt ends, a sleep ends.
SpecStartupLive ==
    /\ Init /\ [][NextStartup]_vars
    /\ WF_vars(StartupCall) /\ WF_vars(StartupConnect) /\ WF_vars(StartupSleep)

-----------------------------------------------------------------------------
(* The weather task alone: cycles over three locations under every mix of  *)
(* failures, and the sleeps between them.                                  *)

InitWeather ==
    /\ rooms = {}
    /\ room_settings = {}
    /\ next_room_id = 1
    /\ server_tz \in ServerZones
    /\ influx = <<>>
    /\ clock = StartClock
    /\ clock_us = NotYet
    /\ resp = NoResponse
    /\ session = SessionManager
    /\ query_params = NoToken
    /\ startup = NotCalled
    /\ write_queue = <<>>
    /\ imports = NoImports
    /\ locations = Registered
    /\ room_detail = NotShown
    /\ creating = NotCreating
    /\ weather = WeatherStarted

\* The rows of the users table a cycle loads: none, or three users.
WeatherUsers == {<<>>, <<1, 2, 3>>}

WeatherFailures == {"timeout", "http_error", "malformed", "missing", "write_lost"}

\* What the n locations of a cycle meet: one kind of failure at any of
\* them, "ok" at the others.
WeatherOutcomes(n) ==
    {[i \in 1..n |-> IF i \in failing THEN failure ELSE "ok"] :
        failing \in SUBSET (1..n), failure \in WeatherFailures}

\* The task is followed through MaxSleeps sleeps.
WeatherHorizon == StartClock + MaxSleeps * SleepSeconds

\* A cycle over one of the given tables of users runs when the sleep before
\* it has ended, by when the write client has delivered the writes of the
\* cycle before, and starts a microsecond after the step before it.  The
\* bucket takes MaxPoints + 1 samples; past that only cycles without a
\* sample are drawn.
CycleOver(tables) ==
    \E load \in {"ok", "failed"}, users \in tables :
        \E outcomes \in WeatherOutcomes(Len(users)) :
            /\ write_queue = <<>>
            /\ load = "failed" => users = <<>>
            /\ \/ load = "failed"
               \/ points_held + Len(handed([i \in DOMAIN users |-> i], outcomes))
                        <= MaxPoints + 1
            /\ fetch_and_store_weather_data(load, users, outcomes,
                    clock, clock_us + 1, Len(users), clock, 0, 1)

WeatherCycle == CycleOver(WeatherUsers)

WeatherSleep ==
    /\ weather.wake <= WeatherHorizon
    /\ weather_sleep(sleep_ends.time, sleep_ends.us)

NextWeather == WeatherCycle \/ WeatherSleep \/ flush_write

SpecWeather == InitWeather /\ [][NextWeather]_vars

\* The event loop runs the task whenever it can run, and a sleep ends; the
\* cycles here are over no location or over two.
LiveUsers == {<<>>, <<1, 2>>}

LiveCycle == CycleOver(LiveUsers)

NextWeatherLive == LiveCycle \/ WeatherSleep \/ flush_write

SpecWeatherLive ==
    /\ InitWeather /\ [][NextWeatherLive]_vars
    /\ WF_vars(LiveCycle) /\ WF_vars(WeatherSleep) /\ WF_vars(flush_write)

-----------------------------------------------------------------------------
(* The weather task statement by statement, next to requests of user 1 for *)
(* the decision and with samples, on the one event loop of the process.    *)

\* The task starts in the tables of one user and one room.
InitLoop ==
    /\ rooms = {[id |-> 1, user_id |-> 1, name |-> "Kitchen"]}
    /\ room_settings = {default_settings(1, 1)}
    /\ next_room_id = 2
    /\ server_tz \in ServerZones
    /\ influx = <<>>
    /\ clock = StartClock
    /\ clock_us = NotYet
    /\ resp = NoResponse
    /\ session = SessionManager
    /\ query_params = NoToken
    /\ startup = NotCalled
    /\ write_queue = <<>>
    /\ imports = NoImports
    /\ locations = Registered
    /\ room_detail = NotShown
    /\ creating = NotCreating
    /\ weather = WeatherStarted

\* The instants at which the statements of the task and the requests run.
LoopInstants ==
    {StartClock, StartClock + SleepSeconds, StartClock + SleepSeconds + SecondsPerMinute,
     StartClock + 2 * SleepSeconds + SecondsPerMinute}
LoopLater(t) == {t2 \in LoopInstants : t2 >= t}

\* The SELECT and the fetch end at the instant of the step before them or
\* at the start of a later second; the steps that read the clock come
\* after the step before them.
LoopLoad ==
    \E load \in {"ok", "failed"}, users \in {<<>>, <<1, 2>>}, t \in LoopLater(clock) :
        load_users(load, users, t, IF t = clock THEN clock_us ELSE 0)

LoopFetch ==
    \E outcome \in {"ok", "timeout", "http_error", "malformed", "missing"},
       t \in LoopLater(clock) :
        fetch_location(outcome, t, IF t = clock THEN clock_us ELSE 0)

LoopWrite ==
    \E fails \in BOOLEAN, t \in LoopLater(clock), us \in Micros :
        /\ points_held < MaxPoints
        /\ after_clock(t, us)
        /\ write_location(fails, t, us)

\* The sleep ends when it is due, or when the request that kept the event
\* loop past that instant is done.
LoopSleep == end_sleep(sleep_ends.time, sleep_ends.us)

LoopDecide ==
    \E t \in LoopLater(clock), us \in Micros, us2 \in Micros :
        /\ event_loop_free
        /\ after_clock(t, us)
        /\ get_heating_status(1, 1, t, us, t, us2)

LoopIngest ==
    \E t \in LoopLater(clock), us \in Micros :
        /\ event_loop_free
        /\ points_held < MaxPoints
        /\ after_clock(t, us)
        /\ post_temperature(1, 1, Tenths(210), t, us)

NextLoop ==
    \/ LoopLoad
    \/ LoopFetch
    \/ LoopWrite
    \/ LoopSleep
    \/ LoopDecide
    \/ LoopIngest
    \/ flush_write

SpecLoop == InitLoop /\ [][NextLoop]_vars

-----------------------------------------------------------------------------
(* The claims.  They are stated on resp, the request handled in the last   *)
(* step and its answer, and on the tables, the bucket and the client's     *)
(* queue as they are after it; the read handlers leave clock at the        *)
(* instant they ran.  A sample is written by a handler when the handler    *)
(* has made the write call for it: the call puts it at the end of the      *)
(* queue, and the client's thread takes it to the bucket from there.       *)
(* Instants are compared to the microsecond: (clock, clock_us) is now, and *)
(* (time, us) the timestamp of a sample.  A decision reads the clock       *)
(* twice: resp.at is the wall-clock reading its target is resolved from,   *)
(* and now, the instant the handler has left the clock at, is the now() of *)
(* its query, from which the 7 days of the lookback are counted.           *)

\* Whether second s1, microsecond u1 is before second s2, microsecond u2.
ClaimBefore(s1, u1, s2, u2) == s1 < s2 \/ (s1 = s2 /\ u1 < u2)

\* Whether sample p is stamped before sample q.
ClaimOlder(p, q) == ClaimBefore(p.time, p.us, q.time, q.us)

\* The samples of series (user_id, room_id) with now - 7d <= timestamp < now.
ClaimWindow(user_id, room_id) ==
    {i \in DOMAIN influx :
        /\ influx[i].measurement = "temperature"
        /\ influx[i].user_id = user_id
        /\ influx[i].room_id = room_id
        /\ ~ClaimBefore(influx[i].time, influx[i].us, clock - 7 * 24 * 3600, clock_us)
        /\ ClaimBefore(influx[i].time, influx[i].us, clock, clock_us)}

\* Those of greatest timestamp among them.
ClaimLatest(user_id, room_id) ==
    {i \in ClaimWindow(user_id, room_id) :
        \A j \in ClaimWindow(user_id, room_id) : ~ClaimOlder(influx[i], influx[j])}

ClaimOwned(user_id, room_id) ==
    [id |-> room_id, user_id |-> user_id] \in {[id |-> row.id, user_id |-> row.user_id] : row \in rooms}

ClaimHasSchedule(user_id, room_id) ==
    \E row \in room_settings : row.user_id = user_id /\ row.room_id = room_id

ClaimSchedule(user_id, room_id) ==
    CHOOSE row \in room_settings : row.user_id = user_id /\ row.room_id = room_id

\* The target of a schedule at second tod of the day (spec 4.1).
ClaimTarget(schedule, tod) ==
    LET night == IF schedule.night_start < schedule.night_end
                 THEN schedule.night_start <= tod /\ tod < schedule.night_end
                 ELSE tod >= schedule.night_start \/ tod < schedule.night_end
    IN  IF night THEN schedule.wanted_temp_night ELSE schedule.wanted_temp_day

\* The second of the day the wall clock of zone tz shows at the instant the
\* handler read the clock (it read resp.at on the wall clock of the server).
ClaimSecondOfDay(tz) == (resp.at - UtcOffset(server_tz) + UtcOffset(tz)) % (24 * 3600)

Decided == resp.op = "get_heating_status" /\ resp.status = 200

\* The query of the decision ran later than the handler read the clock.
ClaimQueriedLater ==
    ClaimBefore(resp.at - UtcOffset(server_tz), resp.at_us, resp.now, resp.now_us)

\* C1: for a room that exists, has a schedule and has a sample in the
\* lookback window (the 7 days before the now() of the query), the decision
\* is 200 and heating_on is true exactly when the value of the latest sample
\* of that window is strictly below the target, which is the one the
\* schedule gives for the time of day the handler read before the query; a
\* value equal to the target gives heating_on = false.
C1_HeatingOnIffBelowTarget ==
    (/\ resp.op = "get_heating_status"
     /\ ClaimOwned(resp.user_id, resp.room_id)
     /\ ClaimHasSchedule(resp.user_id, resp.room_id)
     /\ ClaimWindow(resp.user_id, resp.room_id) # {})
    => /\ resp.status = 200
       /\ resp.target_temp =
            ClaimTarget(ClaimSchedule(resp.user_id, resp.room_id), ClaimSecondOfDay(server_tz))
       /\ \E i \in ClaimLatest(resp.user_id, resp.room_id) :
            /\ resp.current_temp = influx[i].value
            /\ resp.heating_on = (influx[i].value < resp.target_temp)

\* C1 witness: a decision on a latest sample equal to the target: heating
\* off.  The sample is stamped after the handler read the clock for the
\* target and before the now() of its query.
C1_Witness ==
    /\ Decided
    /\ ClaimQueriedLater
    /\ \E i \in ClaimLatest(resp.user_id, resp.room_id) :
            /\ influx[i].value = resp.target_temp
            /\ ClaimBefore(resp.at - UtcOffset(server_tz), resp.at_us,
                           influx[i].time, influx[i].us)
    /\ resp.current_temp = resp.target_temp
    /\ resp.heating_on = FALSE

\* C2: for a schedule with night_start > night_end the resolved target is
\* target_night when the time of day is >= night_start or < night_end, and
\* target_day otherwise.
C2_WrappingNightWindow ==
    Decided =>
        LET s == ClaimSchedule(resp.user_id, resp.room_id)
            tod == ClaimSecondOfDay(server_tz)
        IN  s.night_start > s.night_end =>
                resp.target_temp =
                    IF tod >= s.night_start \/ tod < s.night_end
                    THEN s.wanted_temp_night ELSE s.wanted_temp_day

\* C2 witness: 22:00:00-06:00:00, day 21.0, night 18.0, asked at 23:30: 18.0.
C2_Witness ==
    /\ Decided
    /\ LET s == ClaimSchedule(resp.user_id, resp.room_id)
       IN  /\ s.night_start = 22 * 3600 /\ s.night_end = 6 * 3600
           /\ s.wanted_temp_day = Tenths(210) /\ s.wanted_temp_night = Tenths(180)
    /\ ClaimSecondOfDay(server_tz) = 23 * 3600 + 30 * 60
    /\ resp.target_temp = Tenths(180)

\* C3: for a schedule with night_start < night_end the resolved target is
\* target_night exactly when night_start <= time of day < night_end: closed
\* at night_start, open at night_end.
C3_PlainNightWindow ==
    Decided =>
        LET s == ClaimSchedule(resp.user_id, resp.room_id)
            tod == ClaimSecondOfDay(server_tz)
        IN  s.night_start < s.night_end =>
                /\ (s.night_start <= tod /\ tod < s.night_end)
                        => resp.target_temp = s.wanted_temp_night
                /\ ~(s.night_start <= tod /\ tod < s.night_end)
                        => resp.target_temp = s.wanted_temp_day

\* C3 witness: asked at night_end exactly of a plain window: the day target.
C3_Witness ==
    /\ Decided
    /\ LET s == ClaimSchedule(resp.user_id, resp.room_id)
       IN  /\ s.night_start < s.night_end
           /\ ClaimSecondOfDay(server_tz) = s.night_end
           /\ s.wanted_temp_day # s.wanted_temp_night
           /\ resp.target_temp = s.wanted_temp_day

\* C4: the target of a decision is the one the schedule gives for the time
\* of day that the wall clock of the schedule's own timezone shows.
C4_TargetInScheduleTimezone ==
    Decided =>
        LET s == ClaimSchedule(resp.user_id, resp.room_id)
        IN  resp.target_temp = ClaimTarget(s, ClaimSecondOfDay(s.timezone))

\* C5: a decision asked for a room that does not exist, or that belongs to
\* another user, or that has no schedule, is answered 404 (not found) and
\* carries no verdict.
C5_NotFoundWithoutRoomOrSchedule ==
    resp.op = "get_heating_status" =>
        LET exists == \E row \in rooms : row.id = resp.room_id
            foreign == \E row \in rooms : row.id = resp.room_id /\ row.user_id # resp.user_id
        IN  /\ (~exists \/ foreign) =>
                /\ resp.status = 404 /\ resp.detail = "Room not found"
                /\ resp.heating_on = FALSE /\ resp.target_temp = 0
            /\ (exists /\ ~foreign /\ ~ClaimHasSchedule(resp.user_id, resp.room_id)) =>
                /\ resp.status = 404 /\ resp.detail = "Room settings not found"
                /\ resp.heating_on = FALSE /\ resp.target_temp = 0

\* C5 witness: the caller's own room, left without a schedule by a failed
\* creation, with a fresh sample: the decision is refused.
C5_Witness ==
    /\ resp.op = "get_heating_status"
    /\ ClaimOwned(resp.user_id, resp.room_id)
    /\ ~ClaimHasSchedule(resp.user_id, resp.room_id)
    /\ ClaimWindow(resp.user_id, resp.room_id) # {}
    /\ resp.status = 404

\* C6: with the room and its schedule in place, a decision is refused with
\* "no data" whenever no sample of the room lies in the 7 days before now,
\* the now() of the handler's query, and a decision that is given rests on
\* a sample of that room from within those 7 days.
C6_NoDataOutsideLookback ==
    (/\ resp.op = "get_heating_status"
     /\ ClaimOwned(resp.user_id, resp.room_id)
     /\ ClaimHasSchedule(resp.user_id, resp.room_id))
    => /\ ClaimWindow(resp.user_id, resp.room_id) = {} =>
            /\ resp.status = 404
            /\ resp.detail = "No temperature data found for this room"
       /\ resp.status = 200 =>
            \E i \in ClaimWindow(resp.user_id, resp.room_id) :
                resp.current_temp = influx[i].value

\* C6 witness: "no data" although the room has a sample stamped in the
\* second seven days before now, a microsecond too early (it was inside the
\* 7 days when the handler read the clock for the target), and another room
\* has a sample inside the window.
C6_Witness ==
    /\ resp.op = "get_heating_status"
    /\ resp.status = 404
    /\ resp.detail = "No temperature data found for this room"
    /\ ClaimQueriedLater
    /\ resp.now = clock /\ resp.now_us = clock_us
    /\ \E i \in DOMAIN influx :
        /\ influx[i].user_id = resp.user_id /\ influx[i].room_id = resp.room_id
        /\ influx[i].time = clock - 7 * 24 * 3600
        /\ influx[i].us < clock_us
        /\ ~ClaimBefore(influx[i].time, influx[i].us,
                        resp.at - UtcOffset(server_tz) - 7 * 24 * 3600, resp.at_us)
    /\ \E j \in DOMAIN influx :
        /\ influx[j].room_id # resp.room_id
        /\ ~ClaimBefore(influx[j].time, influx[j].us, clock - 7 * 24 * 3600, clock_us)
        /\ ClaimBefore(influx[j].time, influx[j].us, clock, clock_us)

\* C7: the latest sample of a series is one of greatest timestamp among the
\* samples of the series inside the lookback window (the 7 days before the
\* now() of the query that looks for it), whatever the order in which they
\* were written; with no sample in the window the answer is 404.
C7_LatestIsGreatestTimestamp ==
    /\ (resp.op = "get_latest_temperature" /\ ClaimOwned(resp.user_id, resp.room_id)) =>
        IF ClaimWindow(resp.user_id, resp.room_id) = {}
        THEN resp.status = 404 /\ resp.detail = "No temperature data found"
        ELSE /\ resp.status = 200
             /\ \E i \in ClaimLatest(resp.user_id, resp.room_id) :
                    /\ resp.time = influx[i].time /\ resp.us = influx[i].us
                    /\ resp.current_temp = influx[i].value
    /\ Decided =>
        \E i \in ClaimLatest(resp.user_id, resp.room_id) :
            resp.current_temp = influx[i].value

\* C7 witness: a sample written later with an older timestamp, both in the
\* window, and the latest is the one written first.
C7_Witness ==
    /\ resp.op = "get_latest_temperature"
    /\ resp.status = 200
    /\ \E i, j \in ClaimWindow(resp.user_id, resp.room_id) :
        /\ i < j
        /\ ClaimOlder(influx[j], influx[i])
        /\ influx[j].value # influx[i].value
        /\ resp.time = influx[i].time /\ resp.us = influx[i].us
        /\ resp.current_temp = influx[i].value

\* C8: a decision request, whatever its answer, leaves the rooms, the
\* schedules and the samples as they were.
C8_DecideReadOnly ==
    [][resp'.op = "get_heating_status" =>
            UNCHANGED <<rooms, room_settings, next_room_id, influx, write_queue>>]_vars

\* C8 witness: a decision has been given over a bucket holding samples.
C8_Witness ==
    /\ Decided
    /\ Len(influx) >= 2
    /\ room_settings # {}

\* C9: a batch of more than 100 values for the caller's room is answered 400
\* and writes nothing; a batch of exactly 100 values is accepted and written.
C9_BatchLimit ==
    [][(/\ resp'.op = "post_temperature_batch"
        /\ ClaimOwned(resp'.user_id, resp'.room_id))
       => /\ resp'.n > 100 =>
                /\ resp'.status = 400
                /\ resp'.count = 0
                /\ influx' = influx
                /\ write_queue' = write_queue
          /\ resp'.n = 100 =>
                /\ resp'.status = 200
                /\ Len(write_queue') = Len(write_queue) + 100]_vars

\* C9 witness: 101 values refused after 100 values were accepted.
C9_Witness ==
    /\ resp.op = "post_temperature_batch"
    /\ resp.n = 101
    /\ resp.status = 400
    /\ Len(influx) = 100

\* A step in which the write client delivers the write it holds longest.
ClaimDelivered == Len(write_queue') = Len(write_queue) - 1

\* The samples of the series (user_id, room_id) in a bucket.
ClaimSeriesIn(bucket, user_id, room_id) ==
    {i \in DOMAIN bucket :
        /\ bucket[i].measurement = "temperature"
        /\ bucket[i].user_id = user_id
        /\ bucket[i].room_id = room_id}

\* The write the client delivers in this step adds one sample to the
\* series it was made for.
ClaimOneMoreSample ==
    LET point == Head(write_queue).point
    IN  Cardinality(ClaimSeriesIn(influx', point.user_id, point.room_id))
            = Cardinality(ClaimSeriesIn(influx, point.user_id, point.room_id)) + 1

\* C10: a batch of N <= 100 values without timestamps for the caller's room
\* writes exactly N samples to that room's series, each with a timestamp
\* not before the start of the call: the call is accepted and makes N
\* writes for the series, stamped at or after its start, and every write
\* the client then delivers adds one sample to the series.
C10_BatchWritesAll ==
    [][/\ (/\ resp'.op = "post_temperature_batch"
           /\ ClaimOwned(resp'.user_id, resp'.room_id)
           /\ resp'.n <= 100
           /\ ~resp'.timestamps)
          => /\ resp'.status = 200
             /\ influx' = influx
             /\ Len(write_queue') = Len(write_queue) + resp'.n
             /\ \A i \in 1..Len(write_queue) : write_queue'[i] = write_queue[i]
             /\ \A i \in (Len(write_queue) + 1)..Len(write_queue') :
                   /\ write_queue'[i].point.measurement = "temperature"
                   /\ write_queue'[i].point.user_id = resp'.user_id
                   /\ write_queue'[i].point.room_id = resp'.room_id
                   /\ ~ClaimBefore(write_queue'[i].point.time, write_queue'[i].point.us,
                                   resp'.at, resp'.at_us)
       /\ ClaimDelivered => ClaimOneMoreSample]_vars

\* The instant an ISO-8601 string names; -1 for a string that is not one.
ClaimInstant(stamp) ==
    CASE stamp = "1970-01-12T12:00:00Z" -> 11 * 86400 + 12 * 3600
      [] stamp = "1970-01-12T14:00:00+02:00" -> 11 * 86400 + 12 * 3600
      [] stamp = "1970-01-12T12:00:00" -> 11 * 86400 + 12 * 3600
      [] OTHER -> -1

\* The sample the batch just handled wrote for its value i.
ClaimSample(i) == write_queue[Len(write_queue) - resp.n + i].point

BatchAccepted ==
    /\ resp.op = "post_temperature_batch"
    /\ resp.status = 200

\* C11: a batch of at most 100 values for the caller's room is accepted
\* whatever its timestamps are; the sample of value i carries the instant of
\* timestamp i when there is one and it parses, and otherwise (timestamps
\* absent, too short, no entry at i or entry i unparseable) the server's
\* now, read between the start and the end of the call.
C11_TimestampOrNow ==
    (/\ resp.op = "post_temperature_batch"
     /\ ClaimOwned(resp.user_id, resp.room_id)
     /\ resp.n <= 100)
    => /\ resp.status = 200
       /\ Len(write_queue) >= resp.n
       /\ \A i \in 1..resp.n :
            IF i <= Len(resp.stamps) /\ ClaimInstant(resp.stamps[i]) >= 0
            THEN /\ ClaimSample(i).time = ClaimInstant(resp.stamps[i])
                 /\ ClaimSample(i).us = 0
            ELSE /\ ~ClaimBefore(ClaimSample(i).time, ClaimSample(i).us,
                                 resp.at, resp.at_us)
                 /\ ~ClaimBefore(clock + UtcOffset(server_tz), clock_us,
                                 ClaimSample(i).time, ClaimSample(i).us)

\* The timestamps of the batch handled last, when given, are strings.
ClaimStrings == \A i \in DOMAIN resp.stamps : resp.stamps[i] # Null

\* C12: an accepted batch reports as its count the number of values it was
\* given, and its samples are written in the order of the values: the sample
\* of value i is written before the sample of value i + 1.  (A batch of at
\* most 100 values for the caller's room whose timestamps are strings is
\* accepted.)
C12_OrderAndCount ==
    (/\ resp.op = "post_temperature_batch"
     /\ ClaimOwned(resp.user_id, resp.room_id)
     /\ resp.n <= 100
     /\ resp.status = 200 \/ ClaimStrings)
    => /\ resp.status = 200
       /\ resp.count = Len(resp.temperatures)
       /\ Len(write_queue) >= Len(resp.temperatures)
       /\ \A i \in 1..Len(resp.temperatures) :
                ClaimSample(i).value = resp.temperatures[i]

\* C12 witness: the values 21.0, 18.0, 21.0 accepted, count 3, and the last
\* three samples written are 21.0, 18.0, 21.0 in that order.
C12_Witness ==
    /\ BatchAccepted
    /\ resp.temperatures = <<Tenths(210), Tenths(180), Tenths(210)>>
    /\ resp.count = 3
    /\ Len(write_queue) >= 3
    /\ ClaimSample(1).value = Tenths(210)
    /\ ClaimSample(2).value = Tenths(180)
    /\ ClaimSample(3).value = Tenths(210)

\* C13: a batch whose writes do not all reach the store is not answered
\* with success: the call fails, and an accepted batch has every one of its
\* samples in the store.
C13_BatchAllOrNothing ==
    [][resp'.op = "post_temperature_batch" =>
        /\ resp'.lost # {} => resp'.status >= 500
        /\ resp'.status = 200 =>
                \A i \in (Len(write_queue) + 1)..Len(write_queue') :
                    ~write_queue'[i].fails]_vars

\* The samples of series (user_id, room_id) with from <= timestamp < to.
ClaimBetween(user_id, room_id, from, to) ==
    {i \in DOMAIN influx :
        /\ influx[i].measurement = "temperature"
        /\ influx[i].user_id = user_id
        /\ influx[i].room_id = room_id
        /\ ~ClaimOlder(influx[i], from)
        /\ ClaimOlder(influx[i], to)}

\* The instant an ISO string of a response names.
ClaimInstantOf(iso) ==
    iso.date * 86400 + iso.time[1] * 3600 + iso.time[2] * 60 + iso.time[3] - iso.utcoffset

\* The end and the start of the window of the range request handled last:
\* the end defaults to now, the start to 24 hours before the end.
ClaimEnd ==
    IF resp.end.given THEN [time |-> resp.end.time, us |-> 0]
    ELSE [time |-> resp.now, us |-> resp.now_us]
ClaimStart ==
    IF resp.start.given THEN [time |-> resp.start.time, us |-> 0]
    ELSE [time |-> ClaimEnd.time - 24 * 3600, us |-> ClaimEnd.us]

\* The results of the range request handled last are the samples of set rows.
ClaimReturned(rows) ==
    /\ Len(resp.results) = Cardinality(rows)
    /\ \A i \in rows :
            \E r \in DOMAIN resp.results :
                /\ ClaimInstantOf(resp.results[r].time) = influx[i].time
                /\ resp.results[r].time.microsecond = influx[i].us
                /\ resp.results[r].value = influx[i].value

\* The answer to a range request for the caller's room with a non-empty
\* window holds the samples of the window [start, end).
ClaimRangeAnswered ==
    (/\ resp.op = "get_room_temperatures"
     /\ ClaimOwned(resp.user_id, resp.room_id)
     /\ ClaimOlder(ClaimStart, ClaimEnd))
    => ClaimReturned(ClaimBetween(resp.user_id, resp.room_id, ClaimStart, ClaimEnd))

\* C14: a range request for the caller's room with a non-empty window
\* returns the samples of the window [start, end), where an omitted end is
\* now and an omitted start is 24 hours before the end.  (A step that
\* leaves the weather task where it was is a request.)
C14_RangeDefaults ==
    [][weather' = weather => ClaimRangeAnswered']_vars

\* The samples of the weather series of user_id with from <= time < to.
ClaimWeatherBetween(user_id, from, to) ==
    {i \in DOMAIN influx :
        /\ influx[i].measurement = "weather_temperature"
        /\ influx[i].user_id = user_id
        /\ ~ClaimOlder(influx[i], from)
        /\ ClaimOlder(influx[i], to)}

\* The range request handled last names its window without leaning on the
\* default of the start for a given end.
ClaimWindowGiven == resp.start.given \/ ~resp.end.given

\* The answer to a range request on a room or weather series holds the
\* samples of the series written into its window, and no others.
ClaimRoundTrip ==
    /\ (/\ resp.op = "get_room_temperatures"
        /\ ClaimOwned(resp.user_id, resp.room_id)
        /\ ClaimWindowGiven
        /\ ClaimOlder(ClaimStart, ClaimEnd))
       => /\ resp.status = 200
          /\ ClaimReturned(ClaimBetween(resp.user_id, resp.room_id, ClaimStart, ClaimEnd))
    /\ (/\ resp.op = "get_weather_temperatures"
        /\ ClaimWindowGiven
        /\ ClaimOlder(ClaimStart, ClaimEnd))
       => /\ resp.status = 200
          /\ ClaimReturned(ClaimWeatherBetween(resp.user_id, ClaimStart, ClaimEnd))

\* The delivered sample is in the bucket, and every sample the bucket held
\* is still in it.
ClaimStoredAndKept ==
    /\ \E j \in DOMAIN influx' : influx'[j] = Head(write_queue).point
    /\ \A i \in DOMAIN influx : \E j \in DOMAIN influx' : influx'[j] = influx[i]

\* C15: every sample written for a series, by post_temperature, by
\* post_temperature_batch or by the weather task, is returned by a range
\* request on that series whose window [start, end) holds its timestamp,
\* with the value and the instant it was written with: the write puts the
\* sample into the bucket next to the samples already there, and a range
\* request returns the samples of the bucket in its window and nothing
\* else.  (A step that leaves the weather task where it was is a request
\* or a delivery.)
C15_RoundTrip ==
    [][/\ weather' = weather => ClaimRoundTrip'
       /\ ClaimDelivered => ClaimStoredAndKept]_vars

\* The locations of the last cycle whose fetch came to a temperature: the
\* ones the cycle made a write call for.
ClaimFetched == {i \in DOMAIN weather.outcomes : weather.outcomes[i] \in {"ok", "write_lost"}}

\* The write calls the step made: the entries it put at the end of the queue
\* of the write client.
ClaimCalls == SubSeq(write_queue', Len(write_queue) + 1, Len(write_queue'))

\* The step made one write call for each location the cycle fetched a
\* temperature for, in the order of the locations, and the call goes through
\* unless the write of that location fails.
ClaimOneCallEach ==
    /\ SubSeq(write_queue', 1, Len(write_queue)) = write_queue
    /\ Len(ClaimCalls) = Cardinality(ClaimFetched')
    /\ \A i \in ClaimFetched' :
            LET call == ClaimCalls[Cardinality({j \in ClaimFetched' : j <= i})]
            IN  /\ call.point.measurement = "weather_temperature"
                /\ call.point.user_id = weather'.users[i]
                /\ call.fails = (weather'.outcomes[i] = "write_lost")

\* The delivery of a write call of the weather task appends its sample to
\* the bucket when the write goes through, and leaves the bucket as it was
\* when the write fails.
ClaimWeatherDelivery ==
    (ClaimDelivered /\ Head(write_queue).point.measurement = "weather_temperature")
    => influx' = IF Head(write_queue).fails THEN influx
                 ELSE Append(influx, Head(write_queue).point)

\* C16: a cycle that loaded its locations appends exactly one weather
\* sample for each location whose fetch and write succeeded, in the order of
\* the locations, and none for a location that failed in any way; whatever
\* the failures, the task is not ended by the cycle but stands at its sleep.
C16_FailuresAreIsolated ==
    [][/\ (weather.pc = "cycle" /\ weather' # weather /\ weather'.load = "ok") =>
            /\ weather'.pc = "sleep"
            /\ ClaimOneCallEach
       /\ ClaimWeatherDelivery]_vars

\* C16 witness: three locations, the second one failing: two samples, for
\* the first and the third, and the task at its sleep.
C16_Witness ==
    /\ weather.load = "ok"
    /\ weather.pc = "sleep"
    /\ weather.users = <<1, 2, 3>>
    /\ weather.outcomes[1] = "ok" /\ weather.outcomes[2] \in {"timeout", "http_error", "malformed", "missing"}
    /\ weather.outcomes[3] = "ok"
    /\ write_queue = <<>>
    /\ Len(influx) = 2
    /\ influx[1].measurement = "weather_temperature" /\ influx[1].user_id = 1
    /\ influx[2].measurement = "weather_temperature" /\ influx[2].user_id = 3

\* C17: a cycle whose load of the locations fails makes no write call, so
\* no sample is appended, and leaves the task at its sleep, and the sleep
\* leads to the next cycle.  (A step that changes the record of the task
\* is a step of the task.)
C17_LoadFailureAbortsCycle ==
    [][/\ (weather.pc = "cycle" /\ weather' # weather /\ weather'.load = "failed") =>
            /\ influx' = influx
            /\ write_queue' = write_queue
            /\ weather'.pc = "sleep"
       /\ (weather.pc = "sleep" /\ weather' # weather /\ weather.load = "failed") =>
            weather'.pc = "cycle"]_vars

\* C17 witness: after samples were stored, a cycle failed at the load, added
\* nothing, slept, and the task stands at the next cycle.
C17_Witness ==
    /\ weather.load = "failed"
    /\ weather.pc = "cycle"
    /\ Len(influx) > 0
    /\ write_queue = <<>>
    /\ ~ClaimBefore(clock, clock_us, weather.wake, weather.wake_us)
    /\ weather.wake > StartClock

\* C18: the task is always at a cycle or at a sleep; every cycle is followed
\* by a sleep and every sleep by another cycle, whatever fails (the sleeps
\* as far as the task is followed).
C18_LoopStaysAlive ==
    /\ [](weather.pc \in {"cycle", "sleep"})
    /\ (weather.pc = "cycle") ~> (weather.pc = "sleep")
    /\ (weather.pc = "sleep" /\ weather.wake <= WeatherHorizon) ~> (weather.pc = "cycle")

\* C18 witness: after a first sleep, a cycle in which a fetch raised, and the
\* sleep after it, the task stands at a new cycle.
C18_Witness ==
    /\ weather.pc = "cycle"
    /\ weather.load = "ok"
    /\ \E i \in DOMAIN weather.outcomes : fetch(weather.outcomes[i]).raised
    /\ clock > StartClock

\* C19: every room has exactly one schedule, which holds the defaults it
\* was created with, and every schedule belongs to a room that exists.
C19_OneScheduleForEachRoom ==
    /\ \A room \in rooms :
            /\ Cardinality({row \in room_settings :
                                row.room_id = room.id /\ row.user_id = room.user_id}) = 1
            /\ \A row \in room_settings :
                    row.room_id = room.id =>
                        /\ row.timezone = "Europe/Berlin"
                        /\ row.wanted_temp_day = Tenths(210) /\ row.wanted_temp_night = Tenths(180)
                        /\ row.night_start = 22 * 3600 /\ row.night_end = 6 * 3600
    /\ \A row \in room_settings : \E room \in rooms : room.id = row.room_id

\* C20: once delete_room has answered 200 for a room, the bucket holds no
\* temperature sample of that owner and room.
C20_DeleteRemovesAllSamples ==
    (resp.op = "delete_room" /\ resp.status = 200) =>
        /\ ~\E room \in rooms : room.id = resp.room_id
        /\ ~\E i \in DOMAIN influx :
                /\ influx[i].measurement = "temperature"
                /\ influx[i].user_id = resp.user_id
                /\ influx[i].room_id = resp.room_id

\* The samples of the bucket b outside the series (user_id, room_id), in
\* the order they are held.
ClaimOutside(b, user_id, room_id) ==
    SelectSeq(b, LAMBDA p : ~(/\ p.measurement = "temperature"
                              /\ p.user_id = user_id
                              /\ p.room_id = room_id))

\* C21: a delete_room request leaves every sample outside the series of the
\* caller and the room as it was (the owner's other rooms, other owners,
\* the weather samples); when the caller does not own the room it answers
\* 404 and leaves the tables and the bucket as they were.
C21_DeleteTouchesOneSeries ==
    [][resp'.op = "delete_room" =>
        /\ ClaimOutside(influx', resp'.user_id, resp'.room_id)
             = ClaimOutside(influx, resp'.user_id, resp'.room_id)
        /\ (~\E room \in rooms :
                room.id = resp'.room_id /\ room.user_id = resp'.user_id) =>
                /\ resp'.status = 404
                /\ rooms' = rooms
                /\ room_settings' = room_settings
                /\ influx' = influx
                /\ write_queue' = write_queue]_vars

\* C21 witness: a room was deleted, and the bucket still holds a sample of
\* another room of the same owner, one of the other owner and a weather
\* sample.
C21_Witness ==
    /\ resp.op = "delete_room" /\ resp.status = 200
    /\ ~\E room \in rooms : room.id = resp.room_id
    /\ ~\E i \in DOMAIN influx :
            /\ influx[i].measurement = "temperature"
            /\ influx[i].user_id = resp.user_id /\ influx[i].room_id = resp.room_id
    /\ \E i \in DOMAIN influx :
            /\ influx[i].measurement = "temperature"
            /\ influx[i].user_id = resp.user_id /\ influx[i].room_id # resp.room_id
    /\ \E i \in DOMAIN influx :
            influx[i].measurement = "temperature" /\ influx[i].user_id # resp.user_id
    /\ \E i \in DOMAIN influx : influx[i].measurement = "weather_temperature"

\* C22: while a cycle of the weather task is in progress (a location is
\* being fetched or written), a decision read can run: it does not have to
\* wait for the task to reach its sleep.
C22_RequestsRunDuringCycle ==
    weather.pc \in {"fetch", "write"} => ENABLED LoopDecide

\* The samples of series (user_id, room_id) in the bucket b, in the order
\* they are held.
ClaimSeries(b, user_id, room_id) ==
    SelectSeq(b, LAMBDA p : /\ p.measurement = "temperature"
                            /\ p.user_id = user_id
                            /\ p.room_id = room_id)

\* C23: an ingestion into one series writes samples of that series only,
\* the delivery of a written sample leaves the samples of every other
\* series as they were, and a decision for a series is the one its own
\* samples give (the latest of them in the seven days before the now() of
\* its query, against the target its own schedule gives for the time of
\* day the handler read), whatever was ingested into other series before
\* it.
C23_SeriesAreIndependent ==
    [][/\ resp'.op \in {"post_temperature", "post_temperature_batch"} =>
            /\ influx' = influx
            /\ SubSeq(write_queue', 1, Len(write_queue)) = write_queue
            /\ \A i \in (Len(write_queue) + 1)..Len(write_queue') :
                    /\ write_queue'[i].point.measurement = "temperature"
                    /\ write_queue'[i].point.user_id = resp'.user_id
                    /\ write_queue'[i].point.room_id = resp'.room_id
       /\ ClaimDelivered =>
            ClaimOutside(influx', Head(write_queue).point.user_id,
                         Head(write_queue).point.room_id)
                = ClaimOutside(influx, Head(write_queue).point.user_id,
                               Head(write_queue).point.room_id)
       /\ resp'.op = "get_heating_status" =>
            LET own == ClaimSeries(influx, resp'.user_id, resp'.room_id)
                window == {i \in DOMAIN own :
                            /\ ~ClaimBefore(own[i].time, own[i].us,
                                            clock' - 7 * 24 * 3600, clock_us')
                            /\ ClaimBefore(own[i].time, own[i].us, clock', clock_us')}
                latest == {i \in window : \A j \in window : ~ClaimOlder(own[i], own[j])}
                known == /\ ClaimOwned(resp'.user_id, resp'.room_id)
                         /\ ClaimHasSchedule(resp'.user_id, resp'.room_id)
            IN  /\ influx' = influx
                /\ resp'.status = 200 <=> (known /\ window # {})
                /\ resp'.status = 200 =>
                      /\ resp'.target_temp =
                            ClaimTarget(ClaimSchedule(resp'.user_id, resp'.room_id),
                                        resp'.at % (24 * 3600))
                      /\ \E i \in latest :
                            /\ resp'.current_temp = own[i].value
                            /\ resp'.heating_on = (own[i].value < resp'.target_temp)]_vars

\* C23 witness: a decision for one series while the bucket holds a sample of
\* another series, written later and stamped no earlier than the latest of
\* its own, whose value would have turned the verdict.
C23_Witness ==
    /\ Decided
    /\ ClaimQueriedLater
    /\ \E i \in DOMAIN influx, j \in ClaimLatest(resp.user_id, resp.room_id) :
            /\ influx[i].measurement = "temperature"
            /\ influx[i].user_id # resp.user_id /\ influx[i].room_id # resp.room_id
            /\ i > j
            /\ ~ClaimOlder(influx[i], influx[j])
            /\ ClaimBefore(influx[i].time, influx[i].us, clock, clock_us)
            /\ (influx[i].value < resp.target_temp) # resp.heating_on

\* C24: a decision under a schedule with night_start = night_end uses the
\* night target, at whatever time of day it is asked.
C24_EqualBoundsAlwaysNight ==
    Decided =>
        LET s == ClaimSchedule(resp.user_id, resp.room_id)
        IN  s.night_start = s.night_end => resp.target_temp = s.wanted_temp_night

\* C24 witness: a decision under such a schedule, asked at the very second
\* the window starts and ends (on the server's wall clock).
C24_Witness ==
    /\ Decided
    /\ LET s == ClaimSchedule(resp.user_id, resp.room_id)
       IN  /\ s.night_start = s.night_end
           /\ ClaimSecondOfDay(server_tz) = s.night_start
           /\ s.wanted_temp_night # s.wanted_temp_day
           /\ resp.target_temp = s.wanted_temp_night

\* The steps of the task, by the statement it runs and the one it gets to.
ClaimLoopOrder ==
    {<<"cycle", "fetch">>, <<"cycle", "sleep">>,
     <<"fetch", "write">>, <<"fetch", "fetch">>, <<"fetch", "sleep">>,
     <<"write", "fetch">>, <<"write", "sleep">>,
     <<"sleep", "cycle">>}

\* C25: every step of the weather task follows the order load, then for
\* each location in turn fetch and (after a fetch that brought a
\* temperature) write, then one sleep of 600 seconds, then the next load:
\* the load comes first and starts from no location worked on; a fetch works
\* on the next location of the loaded list; a write follows the successful
\* fetch of the same location and is the only step that writes a sample; the
\* sleep is reached after the last location only (or after a load that
\* failed or found no location) and leads to the next load, 600 seconds
\* or more after it began.
C25_CycleOrder ==
    [][weather' # weather =>
        LET done == Len(weather.outcomes)
            all == Len(weather.users)
        IN  /\ <<weather.pc, weather'.pc>> \in ClaimLoopOrder
            /\ influx' = influx
            /\ write_queue' # write_queue => weather.pc = "write"
            /\ weather'.pc = "sleep" =>
                    weather'.wake = clock' + 600 /\ weather'.wake_us = clock_us'
            /\ weather.pc = "cycle" =>
                    /\ weather'.outcomes = <<>>
                    /\ weather'.pc = "fetch" <=> weather'.users # <<>>
            /\ weather.pc = "fetch" =>
                    /\ done < all
                    /\ weather'.users = weather.users
                    /\ Len(weather'.outcomes) = done + 1
                    /\ SubSeq(weather'.outcomes, 1, done) = weather.outcomes
                    /\ weather'.pc = "write" <=> weather'.outcomes[done + 1] = "ok"
                    /\ weather'.pc = "sleep" => done + 1 = all
            /\ weather.pc = "write" =>
                    /\ weather.outcomes[done] = "ok"
                    /\ weather'.users = weather.users
                    /\ Len(write_queue') = Len(write_queue) + 1
                    /\ SubSeq(write_queue', 1, Len(write_queue)) = write_queue
                    /\ LET call == write_queue'[Len(write_queue')]
                       IN  /\ call.point.measurement = "weather_temperature"
                           /\ call.point.user_id = weather.users[done]
                           /\ call.fails = (weather'.outcomes[done] = "write_lost")
                    /\ weather'.pc = "sleep" <=> done = all
            /\ weather.pc = "sleep" =>
                    /\ weather'.pc = "cycle"
                    /\ ~ClaimBefore(clock', clock_us', weather.wake, weather.wake_us)]_vars

\* C25 witness: the task asleep after a pass over two locations, the first
\* of which failed, that followed an earlier sleep: the sample of the
\* second location is stamped 600 seconds or more after the start.
C25_Witness ==
    /\ weather.pc = "sleep"
    /\ weather.users = <<1, 2>>
    /\ weather.outcomes = <<"timeout", "ok">>
    /\ weather.wake >= StartClock + 2 * 600
    /\ Len(influx) > 0
    /\ influx[Len(influx)].measurement = "weather_temperature"
    /\ influx[Len(influx)].user_id = 2
    /\ influx[Len(influx)].time >= StartClock + 600 + UtcOffset(server_tz)

\* The step is the call of import_csv_if_needed for user_id: a thread takes
\* the request and starts on the file, or answers it at once.
ClaimImportCalled(user_id) ==
    \/ \E thread \in ImportThreads :
            /\ imports[thread].pc = "idle"
            /\ imports'[thread].pc # "idle"
            /\ imports'[thread].user_id = user_id
    \/ /\ imports' = imports
       /\ resp'.op = "import_testdata"
       /\ resp'.user_id = user_id

\* The step answers the import with 200 and leaves the tables, the bucket
\* and the imports in progress as they were.
ClaimImportSkipped ==
    /\ resp'.op = "import_testdata" /\ resp'.status = 200
    /\ rooms' = rooms
    /\ room_settings' = room_settings
    /\ next_room_id' = next_room_id
    /\ influx' = influx
    /\ write_queue' = write_queue
    /\ imports' = imports

\* C26: an import called for a user who has a room creates no room, no
\* schedule and no sample: it is answered at once; and an import called
\* next after an import answered 200 for the same user leaves the tables
\* and the bucket as they were.
C26_ImportOnce ==
    [][\A u \in Users :
        ClaimImportCalled(u) =>
            /\ (\E room \in rooms : room.user_id = u) => ClaimImportSkipped
            /\ (/\ resp.op = "import_testdata" /\ resp.status = 200
                /\ resp.user_id = u) => ClaimImportSkipped]_vars

\* C26 witness: a second import answered right after one that created the
\* rooms, the schedules and the samples of the user.
C26_Witness ==
    /\ resp.op = "import_testdata" /\ resp.status = 200 /\ resp.count = 0
    /\ imports = NoImports
    /\ Cardinality({room \in rooms : room.user_id = resp.user_id}) = 2
    /\ Cardinality({row \in room_settings : row.user_id = resp.user_id}) = 2
    /\ \E i \in DOMAIN influx :
            /\ influx[i].measurement = "weather_temperature"
            /\ influx[i].user_id = resp.user_id
            /\ influx[i].value = Tenths(100)
    /\ clock > StartClock

\* C27: post_temperature and post_temperature_batch for a room that is not
\* a room of the caller (it does not exist, or it is another user's) answer
\* 404 and write no sample, and the batch does so whatever its size: also
\* with more than 100 temperatures the answer is 404, not 400.
C27_ForeignRoomIsNotFound ==
    [][(/\ resp'.op \in {"post_temperature", "post_temperature_batch"}
        /\ ~\E room \in rooms :
                room.id = resp'.room_id /\ room.user_id = resp'.user_id) =>
            /\ resp'.status = 404
            /\ influx' = influx
            /\ write_queue' = write_queue]_vars

\* C27 witness: a batch of 101 temperatures for the room of another user,
\* answered 404.
C27_Witness ==
    /\ resp.op = "post_temperature_batch"
    /\ resp.n = 101
    /\ \E room \in rooms : room.id = resp.room_id /\ room.user_id # resp.user_id
    /\ resp.status = 404
    /\ resp.detail = "Room not found or access denied"

\* The room_settings rows a room can hold: the row create_room inserts and
\* the rows update_room_settings leaves.
ClaimRows ==
    {default_settings(1, 1)} \cup
    {[user_id |-> 1, room_id |-> 1, timezone |-> s.timezone,
      wanted_temp_day |-> s.wanted_temp_day, wanted_temp_night |-> s.wanted_temp_night,
      night_start |-> s.night_start, night_end |-> s.night_end] : s \in Schedules}

\* The page has shown a wanted temperature.
ClaimShown == room_detail.pc = "target" /\ room_detail.settings # NoSettings

\* C28: for every room settings record and every time of day, the wanted
\* temperature the dashboard computes from the record as the API sent it is
\* the target get_heating_status resolves from the record at the same
\* reading of the clock; and a decision made on the record the page holds,
\* at the second the page read, rests on the target the page shows.
C28_DashboardShowsApiTarget ==
    /\ ClaimShown =>
            \A row \in ClaimRows :
                RoomSettings(row) = room_detail.settings =>
                    room_detail.current_target = target_temp(row, room_detail.now)
    /\ (/\ ClaimShown
        /\ Decided
        /\ resp.user_id = room_detail.user_id
        /\ resp.room_id = room_detail.room_id
        /\ RoomSettings(ClaimSchedule(resp.user_id, resp.room_id)) = room_detail.settings
        /\ resp.at = room_detail.now)
       => resp.target_temp = room_detail.current_target

\* C28 witness: the page shows the night target one second before the end
\* of a window that starts at 07:30:15 and wraps around midnight, and the
\* decision asked for in that second rests on the same target.
C28_Witness ==
    /\ ClaimShown
    /\ Decided
    /\ resp.at = room_detail.now
    /\ LET s == ClaimSchedule(resp.user_id, resp.room_id)
       IN  /\ RoomSettings(s) = room_detail.settings
           /\ s.night_start = 7 * 3600 + 30 * 60 + 15
           /\ s.night_end = 6 * 3600
           /\ ClaimSecondOfDay(server_tz) = s.night_end - 1
           /\ room_detail.current_target = s.wanted_temp_night
           /\ resp.target_temp = s.wanted_temp_night

\* C29: whenever the session holds a token it holds a user.
C29_TokenImpliesUser ==
    session.token # NoToken => session.user # NoUser


\* wait_for_mysql has ended: it returned True or it raised.
startup_ended == startup.pc \in {"returned", "raised"}

\* What holds of the attempts at every moment: never more than retries of
\* them, a return only after an attempt, a raise only after retries of
\* them, all failed (i counts the failed passes).
ClaimAttempts ==
    /\ startup.attempts <= startup.retries
    /\ startup.pc = "returned" => /\ startup.attempts >= 1
                                  /\ startup.attempts = startup.i + 1
    /\ startup.pc = "raised" => /\ startup.attempts = startup.retries
                                /\ startup.i = startup.retries

\* C30: wait_for_mysql always terminates: it makes at most retries
\* connection attempts, returns True at the first attempt that succeeds
\* and makes no attempt after it, and raises after exactly retries failed
\* attempts.
C30_WaitForMysqlTerminates ==
    /\ []ClaimAttempts
    /\ [][startup_ended => startup' = startup]_vars
    /\ [][startup.pc = "connect" /\ startup'.attempts = startup.attempts + 1
            => startup'.pc \in {"returned", "sleep"}]_vars
    /\ (startup.pc # "idle") ~> startup_ended

\* The default call has failed ten times and raised after half a minute.
C30_Witness ==
    /\ startup.pc = "raised"
    /\ startup.retries = DefaultRetries
    /\ startup.attempts = DefaultRetries
    /\ clock = StartClock + DefaultRetries * DefaultDelay

====
